---- MODULE Spec2Model ----
(***************************************************************************)
(* Model of the multi-source transcript fusion and quality-scoring engine: *)
(* LanguageDetectionService, DirectAssemblyAIService and                   *)
(* EnhancedTranscriptionService.                                           *)
(*                                                                         *)
(* Texts are sequences of Unicode code points.  Probabilities and          *)
(* confidences are integers in hundredths (0..100), quality scores are     *)
(* integers in thousandths (0..1000), selection scores are integers in     *)
(* units of 1/2000 of a point, times are integers in thousandths of a      *)
(* second.                                                                 *)
(***************************************************************************)
EXTENDS Integers, Sequences, FiniteSets, TLC

VARIABLES
    \* ---- LanguageDetectionService call (SpecLang) ----
    ld_pc,                  \* "idle" | "input" | "detected" | "scored"
    text,                   \* argument of detect_language_mix
    detection_result,       \* value returned by detect_language_mix
    ld_calls,               \* helpers detect_language_mix called
    expected_lesson_type,   \* argument of calculate_quality_score
    score                   \* value returned by calculate_quality_score

ld_vars == <<ld_pc, text, detection_result, ld_calls, expected_lesson_type, score>>

VARIABLES
    \* ---- one call of a selector (SpecSelect) ----
    sel_pc,                 \* "idle" | "models" | "approaches" | "selected"
    sel_lesson_type,        \* lesson_type argument
    results,                \* processed_results of transcribe_with_multiple_models
    sel_recall_result,      \* recall_result argument of _combine_all_approaches
    sel_direct_result,      \* direct_result argument of _combine_all_approaches
    candidates,             \* results_analysis / approaches, in dict order
    scores,                 \* the selector's scores, in the same order
    best_approach           \* the name the selector returned

sel_vars == <<sel_pc, sel_lesson_type, results, sel_recall_result, sel_direct_result,
              candidates, scores, best_approach>>

VARIABLES
    \* ---- one call of _create_unified_timeline_transcript (SpecTimeline) ----
    tl_pc,                  \* "idle" | "input" | "done"
    tl_approaches,          \* approaches argument, in dict order
    unified_transcript      \* the dict returned

tl_vars == <<tl_pc, tl_approaches, unified_transcript>>

VARIABLES
    \* ---- one run of transcribe_lesson with multiple approaches (Spec) ----
    run_pc,                 \* position of transcribe_lesson
    run_lesson_type,        \* lesson_type argument of transcribe_lesson
    yandex_service,         \* whether self.yandex_service is set
    recall_pc,              \* position of the _transcribe_via_recall task
    recall_data,            \* what get_transcript_with_post_processing gave it
    recall_result,          \* value the task returned
    direct_pc,              \* position of the _transcribe_via_direct_assemblyai task
    direct_result,          \* value the task returned
    model_pc,               \* positions of the transcribe_audio_url tasks
    model_value,            \* what each of them returned or raised
    polls,                  \* loop iterations each of them has spent polling
    selected_model,         \* selected_model of the direct result
    approaches,             \* approaches of _combine_all_approaches
    unified,                \* unified_transcript of _combine_all_approaches
    primary_method,         \* best_approach of _combine_all_approaches
    combined_result         \* combined_result of _combine_all_approaches

task_vars == <<recall_pc, recall_data, recall_result, direct_pc, direct_result, model_pc,
               model_value, polls, selected_model>>

combine_vars == <<approaches, unified, primary_method, combined_result>>

run_vars == <<run_pc, run_lesson_type, yandex_service, task_vars, combine_vars>>

VARIABLES
    \* ---- the text cleanup applied and applied again (SpecCleanup) ----
    pp_pc,                  \* "idle" | "input" | "first" | "second"
    pp_function,            \* the cleanup that is applied
    pp_text,                \* the text it is applied to
    pp_first,               \* the text after one pass
    pp_second               \* the text after a second pass over pp_first

pp_vars == <<pp_pc, pp_function, pp_text, pp_first, pp_second>>

VARIABLES
    \* ---- one call of _determine_lesson_type (SpecLessonType) ----
    lt_pc,                  \* "idle" | "input" | "returned"
    lt_combined,            \* combined_result argument
    lt_lesson_type          \* the lesson type returned

lt_vars == <<lt_pc, lt_combined, lt_lesson_type>>

VARIABLES
    \* ---- a lesson, its Recall webhooks and background tasks (SpecWebhook) ----
    lesson_status,          \* lesson.status in the storage; "None": no lesson
    lesson_transcript_id,   \* lesson.transcript_id: "None" or "saved"
    service_lesson_type,    \* lesson type the background task passes on
    webhooks,               \* number of webhooks handled so far
    bg_pc,                  \* position of each _process_enhanced_transcription
    bg_result               \* what transcribe_lesson returned to each of them

wh_vars == <<lesson_status, lesson_transcript_id, service_lesson_type, webhooks,
             bg_pc, bg_result>>

vars == <<ld_vars, sel_vars, tl_vars, run_vars, pp_vars, lt_vars, wh_vars>>

----------------------------------------------------------------------------
(* Bounds of the model *)

\* number of pieces a sample text is concatenated from
MaxPieces == 3

\* number of words in the word list of a sample result
MaxWords == 2

\* number of iterations of the polling loop that fit into max_wait_time
MaxPolls == 2

\* number of entries in the languages list given to _determine_lesson_type
MaxLanguages == 3

\* number of Recall webhooks delivered for the lesson
MaxWebhooks == 2

----------------------------------------------------------------------------
(* Characters *)

Min(a, b) == IF a < b THEN a ELSE b
Max(a, b) == IF a > b THEN a ELSE b

\* str.isspace / regex \s on the characters used here
IsSpace(c) == c \in {9, 10, 11, 12, 13, 32}

IsChinese(c)  == 19968 <= c /\ c <= 40959      \* '一' <= c <= '鿿'
IsCyrillic(c) == 1024 <= c /\ c <= 1279        \* 'Ѐ' <= c <= 'ӿ'
IsLatinLetter(c) == (65 <= c /\ c <= 90) \/ (97 <= c /\ c <= 122)
IsDigit(c)    == 48 <= c /\ c <= 57

\* str.isalpha on the characters used here
IsAlpha(c) == IsLatinLetter(c) \/ IsCyrillic(c) \/ IsChinese(c)

\* regex \w (Unicode): alphanumeric or underscore
IsWordChar(c) == IsAlpha(c) \/ IsDigit(c) \/ c = 95

----------------------------------------------------------------------------
(* String helpers *)

\* str.strip()
Strip(s) ==
    IF \A i \in 1..Len(s) : IsSpace(s[i]) THEN <<>>
    ELSE SubSeq(s,
                CHOOSE i \in 1..Len(s) :
                    ~IsSpace(s[i]) /\ \A j \in 1..(i - 1) : IsSpace(s[j]),
                CHOOSE i \in 1..Len(s) :
                    ~IsSpace(s[i]) /\ \A j \in (i + 1)..Len(s) : IsSpace(s[j]))

\* re.sub(r'\s+', ' ', s): every run of whitespace becomes one space
CollapseSpaces(s) ==
    LET RunStart(i) == ~IsSpace(s[i]) \/ i = 1 \/ ~IsSpace(s[i - 1])
        kept == SelectSeq([i \in 1..Len(s) |-> i], RunStart)
    IN  [k \in 1..Len(kept) |-> IF IsSpace(s[kept[k]]) THEN 32 ELSE s[kept[k]]]

\* number of elements of s satisfying the test
CountIf(s, P(_)) == Len(SelectSeq(s, P))

\* any(P(c) for c in s)
AnyChar(s, P(_)) == \E i \in 1..Len(s) : P(s[i])

RECURSIVE Concat(_)
Concat(ss) == IF ss = <<>> THEN <<>> ELSE Head(ss) \o Concat(Tail(ss))

\* sep.join(ss)
RECURSIVE JoinWith(_, _)
JoinWith(ss, sep) ==
    IF ss = <<>> THEN <<>>
    ELSE IF Len(ss) = 1 THEN Head(ss)
    ELSE Head(ss) \o sep \o JoinWith(Tail(ss), sep)

----------------------------------------------------------------------------
(* LanguageDetectionService *)

\* self.min_text_length
min_text_length == 10

\* LESSON_TYPES
LESSON_TYPES ==
    [chinese |-> <<"ru", "zh">>, english |-> <<"ru", "en">>]

SeqToSet(s) == {s[i] : i \in 1..Len(s)}

\* _empty_detection_result
EmptyDetectionResult ==
    [script_analysis   |-> [script_counts |-> [chinese |-> 0, cyrillic |-> 0,
                                               latin |-> 0, other |-> 0],
                            has_scripts |-> FALSE,
                            dominant_script |-> "unknown", total_chars |-> 0],
     library_detection |-> [success |-> FALSE, primary_language |-> "unknown",
                            languages |-> <<>>],
     lesson_type       |-> "unknown",
     confidence        |-> 0,
     primary_language  |-> "unknown",
     detected_languages |-> <<>>,
     is_multilingual   |-> FALSE]

\* re.sub(r'[^\w\s]', ' ', s)
PunctuationToSpace(s) ==
    [i \in 1..Len(s) |-> IF IsWordChar(s[i]) \/ IsSpace(s[i]) THEN s[i] ELSE 32]

\* _clean_text: strip, collapse whitespace, replace punctuation by a space
CleanText(t) == PunctuationToSpace(CollapseSpaces(Strip(t)))

\* the script a character is counted in: SCRIPT_RANGES in dict order, else other
ScriptOf(c) ==
    IF IsChinese(c) THEN "chinese"
    ELSE IF IsCyrillic(c) THEN "cyrillic"
    ELSE IF 65 <= c /\ c <= 122 THEN "latin"       \* (0x0041, 0x007A)
    ELSE "other"

ScriptNames == <<"chinese", "cyrillic", "latin", "other">>

\* max(script_percentages.keys(), key=...): the first key with the largest value
RECURSIVE FirstMaxKey(_, _, _)
FirstMaxKey(keys, val, best) ==
    IF keys = <<>> THEN best
    ELSE FirstMaxKey(Tail(keys), val,
                     IF val[Head(keys)] > val[best] THEN Head(keys) ELSE best)

\* script_counts of _analyze_scripts for the non-whitespace characters
ScriptCounts(counted) ==
    [s \in SeqToSet(ScriptNames) |->
        LET InS(c) == ScriptOf(c) = s IN CountIf(counted, InS)]

ScriptAnalysisOf(counts, total) ==
    IF total = 0
    THEN EmptyDetectionResult.script_analysis
    ELSE [script_counts |-> counts,
          has_scripts |-> TRUE,
          dominant_script |-> FirstMaxKey(Tail(ScriptNames), counts, Head(ScriptNames)),
          total_chars |-> total]

\* _analyze_scripts dividing by the length of the text, spaces included
AnalyzeScripts_SpacesInTotal(t) ==
    LET NotSpace(c) == ~IsSpace(c)
    IN  ScriptAnalysisOf(ScriptCounts(SelectSeq(t, NotSpace)), Len(t))

\* _analyze_scripts; percentages are script_counts[s] * 100 / total_chars
AnalyzeScripts(t) ==
    LET NotBlank(c) == c # 32
        NotSpace(c) == ~IsSpace(c)
    IN  ScriptAnalysisOf(ScriptCounts(SelectSeq(t, NotSpace)), CountIf(t, NotBlank))

\* scripts.get(s, 0) > threshold, on the percentage count / total_chars * 100
ScriptPctAbove(sa, s, threshold) ==
    sa.has_scripts /\ sa.script_counts[s] * 100 > threshold * sa.total_chars

\* max(lang['probability'] for lang in lib_languages)
RECURSIVE MaxProbability(_)
MaxProbability(langs) ==
    IF Len(langs) = 1 THEN Head(langs).probability
    ELSE Max(Head(langs).probability, MaxProbability(Tail(langs)))

AppendIfAbsent(langs, l) == IF l \in SeqToSet(langs) THEN langs ELSE Append(langs, l)

\* _combine_detections without the languages added from the script analysis
CombineDetections_LibraryOnly(sa, lib) ==
    LET Likely(l) == l.probability > 10
        kept == SelectSeq(lib.languages, Likely)
    IN  [primary_language |-> IF lib.success THEN lib.primary_language ELSE "unknown",
         languages |-> IF lib.success THEN [i \in 1..Len(kept) |-> kept[i].language]
                       ELSE <<>>,
         confidence |-> IF lib.success /\ lib.languages # <<>>
                        THEN MaxProbability(lib.languages) ELSE 0,
         script_dominant |-> sa.dominant_script]

\* _combine_detections
CombineDetections(sa, lib) ==
    LET Likely(l) == l.probability > 10
        kept  == SelectSeq(lib.languages, Likely)
        langs0 == IF lib.success /\ lib.languages # <<>>
                  THEN [i \in 1..Len(kept) |-> kept[i].language] ELSE <<>>
        conf0 == IF lib.success /\ lib.languages # <<>>
                 THEN MaxProbability(lib.languages) ELSE 0
        primary == IF lib.success THEN lib.primary_language ELSE "unknown"
        langs1 == IF ScriptPctAbove(sa, "chinese", 5)
                  THEN AppendIfAbsent(langs0, "zh") ELSE langs0
        langs2 == IF ScriptPctAbove(sa, "cyrillic", 5)
                  THEN AppendIfAbsent(langs1, "ru") ELSE langs1
        langs3 == IF ScriptPctAbove(sa, "latin", 50)
                     /\ ~("zh" \in SeqToSet(langs2) \/ "ru" \in SeqToSet(langs2))
                  THEN AppendIfAbsent(langs2, "en") ELSE langs2
        conf1 == IF sa.dominant_script # "unknown" /\ sa.dominant_script # "other"
                 THEN Min(conf0 + 20, 100) ELSE conf0
    IN  [primary_language |-> primary, languages |-> langs3,
         confidence |-> conf1, script_dominant |-> sa.dominant_script]

\* the lesson type with the Russian + English check before Russian + Chinese
DetermineLessonType_EnglishFirst(combined) ==
    LET detected == SeqToSet(combined.languages)
    IN  IF "ru" \in detected /\ "en" \in detected THEN "english"
        ELSE IF "zh" \in detected THEN "chinese"
        ELSE IF "en" \in detected THEN "english"
        ELSE IF combined.primary_language = "zh" THEN "chinese"
        ELSE IF combined.primary_language = "en" THEN "english"
        ELSE "unknown"

\* _determine_lesson_type
DetermineLessonType(combined) ==
    LET detected == SeqToSet(combined.languages)
    IN  IF "ru" \in detected /\ "zh" \in detected THEN "chinese"
        ELSE IF "ru" \in detected /\ "en" \in detected THEN "english"
        ELSE IF "zh" \in detected THEN "chinese"
        ELSE IF "en" \in detected /\ "ru" \notin detected THEN "english"
        ELSE IF combined.primary_language = "zh" THEN "chinese"
        ELSE IF combined.primary_language = "en" THEN "english"
        ELSE "unknown"

\* the guard with the strip() forgotten
TooShort_Unstripped(t) == t = <<>> \/ Len(t) < min_text_length

\* the guard of detect_language_mix: not text or len(text.strip()) < min_text_length
TooShort(t) == t = <<>> \/ Len(Strip(t)) < min_text_length

\* the dict detect_language_mix returns (lines 52-61)
DetectionResultOf(sa, lib, combined) ==
    [script_analysis   |-> sa,
     library_detection |-> lib,
     lesson_type       |-> DetermineLessonType(combined),
     confidence        |-> combined.confidence,
     primary_language  |-> combined.primary_language,
     detected_languages |-> combined.languages,
     is_multilingual   |-> Len(combined.languages) > 1]

\* detect_language_mix past its guard (lines 37-61)
AnalyzeCleaned(sa, lib) == DetectionResultOf(sa, lib, CombineDetections(sa, lib))

\* detect_language_mix, given what langdetect answers for the cleaned text;
\* .calls lists the helpers it called
DetectLanguageMixTraced(t, lib) ==
    IF TooShort(t)
    THEN [result |-> EmptyDetectionResult, calls |-> {"_empty_detection_result"}]
    ELSE [result |-> AnalyzeCleaned(AnalyzeScripts(CleanText(t)), lib),
          calls |-> {"_clean_text", "_analyze_scripts", "_library_detect",
                     "_combine_detections", "_determine_lesson_type"}]

DetectLanguageMix(t, lib) == DetectLanguageMixTraced(t, lib).result

\* get_lesson_language_config(lesson_type)['expected_languages']
ExpectedLanguages(lesson_type) ==
    IF lesson_type \in DOMAIN LESSON_TYPES
    THEN LESSON_TYPES[lesson_type] ELSE LESSON_TYPES["chinese"]

\* get_lesson_language_config(lesson_type)['lesson_type']
ConfigLessonType(lesson_type) ==
    IF lesson_type \in DOMAIN LESSON_TYPES THEN lesson_type ELSE "chinese"

\* calculate_quality_score with the lesson-type bonus given to every result
CalculateQualityScore_AlwaysTypeBonus(dr, expected) ==
    LET s1 == dr.confidence * 4
        s2 == s1 + 300
        s3 == s2 + (IF dr.is_multilingual /\ expected \in {"chinese", "english"}
                    THEN 200 ELSE 0)
        s4 == s3 + (IF SeqToSet(ExpectedLanguages(expected))
                          \cap SeqToSet(dr.detected_languages) # {}
                    THEN 100 ELSE 0)
    IN  Min(s4, 1000)

\* calculate_quality_score, in thousandths
CalculateQualityScore(dr, expected) ==
    LET s1 == dr.confidence * 4
        s2 == s1 + (IF dr.lesson_type = expected THEN 300 ELSE 0)
        s3 == s2 + (IF dr.is_multilingual /\ expected \in {"chinese", "english"}
                    THEN 200 ELSE 0)
        s4 == s3 + (IF SeqToSet(ExpectedLanguages(expected))
                          \cap SeqToSet(dr.detected_languages) # {}
                    THEN 100 ELSE 0)
    IN  Min(s4, 1000)

----------------------------------------------------------------------------
(* Provider results *)

\* Python None
None == [kind |-> "none"]

\* a flat result object: {"text": ..., "words": [...], "confidence": ...};
\* error tells whether it carries an "error" key
Dict(t, ws, conf, err) ==
    [kind |-> "dict", text |-> t, has_words |-> TRUE, words |-> ws,
     confidence |-> conf, error |-> err]

\* a flat result object without a "words" key: {"text": ...}
TextOnly(t) ==
    [kind |-> "dict", text |-> t, has_words |-> FALSE, words |-> <<>>,
     confidence |-> 0, error |-> FALSE]

\* {"text": "", "words": [], "error": "No successful transcriptions"}
NoSuccessfulTranscriptions == Dict(<<>>, <<>>, 0, TRUE)

\* name.startswith("specific_")
IsSpecific(name) == name \in {"specific_ru", "specific_zh", "specific_en"}

\* index of the first largest element: max(keys, key=...) over a dict in order
RECURSIVE ArgMaxFrom(_, _, _)
ArgMaxFrom(v, i, best) ==
    IF i > Len(v) THEN best
    ELSE ArgMaxFrom(v, i + 1, IF v[i] > v[best] THEN i ELSE best)

ArgMaxFirst(v) == ArgMaxFrom(v, 2, 1)

----------------------------------------------------------------------------
(* DirectAssemblyAIService: selection among the model results *)

\* task_names of transcribe_with_multiple_models
TaskNames(lesson_type) ==
    <<"multilingual">> \o
    [i \in 1..Len(ExpectedLanguages(lesson_type)) |->
        IF ExpectedLanguages(lesson_type)[i] = "ru" THEN "specific_ru"
        ELSE IF ExpectedLanguages(lesson_type)[i] = "zh" THEN "specific_zh"
        ELSE "specific_en"]

\* one entry of results_analysis (lines 236-243)
ResultAnalysis(name, result, la, config_lesson_type) ==
    [name |-> name,
     result |-> result,
     text |-> result.text,
     language_analysis |-> la,
     quality_score |-> CalculateQualityScore(la, config_lesson_type),
     confidence |-> result.confidence,
     text_length |-> Len(result.text),
     available |-> TRUE]

\* one entry of results_analysis in _combine_transcription_results_intelligently,
\* given what langdetect answers for the text
AnalyzeResult(name, result, lib, config_lesson_type) ==
    ResultAnalysis(name, result, DetectLanguageMix(result.text, lib), config_lesson_type)

\* the per-candidate score of _select_best_approach_by_comprehensive_score with
\* the composite rule applied to chinese lessons too
ComprehensiveScore_NoChineseRule(a, lesson_type) ==
    a.quality_score * 80 + a.confidence * 600 + Min(a.text_length, 100) * 400

\* the per-candidate score with the penalty for very short results left out
ComprehensiveScore_NoShortPenalty(a, lesson_type) ==
    IF lesson_type = "chinese"
    THEN IF AnyChar(a.text, IsCyrillic) THEN 2000000 ELSE 20000
    ELSE a.quality_score * 80 + a.confidence * 600 + Min(a.text_length, 100) * 400
         + (IF a.name = "multilingual" /\ a.language_analysis.is_multilingual THEN 50000
            ELSE IF IsSpecific(a.name) /\ ~a.language_analysis.is_multilingual
            THEN -30000
            ELSE IF a.name = "multilingual" THEN 20000
            ELSE 0)

\* the per-candidate score of _select_best_approach_by_comprehensive_score,
\* in units of 1/2000 of a point, so that the halving is exact
ComprehensiveScore(a, lesson_type) ==
    IF lesson_type = "chinese"
    THEN IF AnyChar(a.text, IsCyrillic) THEN 2000000 ELSE 20000
    ELSE LET ml == a.language_analysis.is_multilingual
             base == a.quality_score * 80
                     + a.confidence * 600
                     + Min(a.text_length, 100) * 400
             adj == IF lesson_type \in {"english", "spanish"}
                    THEN IF a.name = "multilingual" /\ ml THEN 50000
                         ELSE IF IsSpecific(a.name) /\ ~ml THEN -30000
                         ELSE IF a.name = "multilingual" THEN 20000
                         ELSE 0
                    ELSE IF ml THEN 20000 ELSE 0
         IN  IF a.text_length < 10 THEN (base + adj) \div 2 ELSE base + adj

ComprehensiveScores(ra, lesson_type) ==
    [i \in 1..Len(ra) |-> ComprehensiveScore(ra[i], lesson_type)]

\* _select_best_approach_by_comprehensive_score: a name, or "None"
SelectBestApproachByComprehensiveScore(ra, lesson_type) ==
    IF ra = <<>> THEN "None"
    ELSE ra[ArgMaxFirst(ComprehensiveScores(ra, lesson_type))].name

----------------------------------------------------------------------------
(* EnhancedTranscriptionService: selection among the approaches *)

\* bool(result)
Truthy(r) == r.kind \in {"dict", "list"}

\* _extract_text_from_result
ExtractTextFromResult(r) ==
    IF r.kind = "dict" THEN r.text
    ELSE IF r.kind = "list"
    THEN JoinWith([k \in 1..Len(r.participants) |->
                      JoinWith([i \in 1..Len(r.participants[k].words) |->
                                   r.participants[k].words[i].text], <<32>>)],
                  <<32>>)
    ELSE <<>>

\* "available" with no regard to the result
IsAvailable_Always(result) == TRUE

\* "available": result is not None (lines 203 and 208)
IsAvailable(result) == result # None

\* the "text" of an approach (lines 204 and 209)
ApproachText(name, result) ==
    IF name = "recall_api" THEN ExtractTextFromResult(result)
    ELSE IF Truthy(result) THEN result.text ELSE <<>>

\* an approach after its language analysis (lines 214-221)
AnalyzedApproach(name, result, t, la, lesson_type) ==
    [name |-> name,
     result |-> result,
     available |-> IsAvailable(result),
     text |-> t,
     language_analysis |-> la,
     quality_score |-> IF IsAvailable(result)
                       THEN CalculateQualityScore(la, lesson_type) ELSE 0]

\* one entry of approaches in _combine_all_approaches (lines 200-221), given what
\* langdetect answers for its text
Approach(name, result, lib, lesson_type) ==
    AnalyzedApproach(name, result, ApproachText(name, result),
                     IF IsAvailable(result)
                     THEN DetectLanguageMix(ApproachText(name, result), lib)
                     ELSE EmptyDetectionResult,
                     lesson_type)

\* the per-approach score of _select_best_approach_by_quality,
\* in units of 1/2000 of a point, so that the halving is exact
QualityScore(a, lesson_type) ==
    IF ~a.available THEN 0
    ELSE LET len == Len(a.text)
             s0 == a.quality_score * 200 + Min(len * 200, 100000)
             s1 == IF lesson_type \in {"chinese", "english", "spanish"}
                   THEN IF a.name = "multilingual"
                        THEN s0 + 100000
                             + (IF a.language_analysis.is_multilingual THEN 60000 ELSE 0)
                        ELSE IF IsSpecific(a.name) /\ a.quality_score < 800
                             THEN s0 - 40000
                             ELSE s0
                   ELSE IF a.name = "recall_api" THEN s0 + 20000
                        ELSE IF a.name = "direct_assemblyai" THEN s0 + 30000
                        ELSE s0
         IN  IF len < 20 THEN s1 \div 2 ELSE s1

QualityScores(ap, lesson_type) == [i \in 1..Len(ap) |-> QualityScore(ap[i], lesson_type)]

FallbackOrder == <<"multilingual", "recall_api", "direct_assemblyai">>

\* the fallback of _select_best_approach_by_quality (lines 625-631)
FallbackApproach(ap) ==
    LET Usable(n) == \E i \in 1..Len(ap) : ap[i].name = n /\ ap[i].available
        usable == SelectSeq(FallbackOrder, Usable)
        Avail(a) == a.available
        avail == SelectSeq(ap, Avail)
    IN  IF usable # <<>> THEN Head(usable)
        ELSE IF avail # <<>> THEN Head(avail).name
        ELSE "recall_api"

\* the fallback taking the first name of the order, available or not
SelectBestApproachByQuality_FallbackIgnoresAvailable(ap, lesson_type) ==
    LET sc == QualityScores(ap, lesson_type)
    IN  IF ap = <<>> \/ \A i \in 1..Len(sc) : sc[i] = 0
        THEN "recall_api"
        ELSE ap[ArgMaxFirst(sc)].name

\* _select_best_approach_by_quality
SelectBestApproachByQuality(ap, lesson_type) ==
    LET sc == QualityScores(ap, lesson_type)
    IN  IF ap = <<>> \/ \A i \in 1..Len(sc) : sc[i] = 0
        THEN FallbackApproach(ap)
        ELSE ap[ArgMaxFirst(sc)].name

----------------------------------------------------------------------------
(* EnhancedTranscriptionService: text reconstruction *)

\* . ! ? and their fullwidth forms
AsciiTerminal == {46, 33, 63}
ChineseTerminal == {12290, 65281, 65311}
Terminal == AsciiTerminal \cup ChineseTerminal

\* . , ! ? : ; and the fullwidth forms of all six
Punctuation == {46, 44, 33, 63, 58, 59, 12290, 65292, 65281, 65311, 65306, 65307}

\* [A-Za-zА-Яа-я]
IsLetterAZ(c) == IsLatinLetter(c) \/ (1040 <= c /\ c <= 1103)

\* [a-zA-Zа-яё]
IsLetterLower(c) == IsLatinLetter(c) \/ (1072 <= c /\ c <= 1103) \/ c = 1105

\* str.upper() of one character
Upper(c) ==
    IF 97 <= c /\ c <= 122 THEN c - 32
    ELSE IF 1072 <= c /\ c <= 1103 THEN c - 32
    ELSE IF 1104 <= c /\ c <= 1119 THEN c - 80
    ELSE c

\* the sequence with the elements at the indices satisfying Drop removed
Without(s, Drop(_)) ==
    LET Keep(i) == ~Drop(i)
        kept == SelectSeq([i \in 1..Len(s) |-> i], Keep)
    IN  [k \in 1..Len(kept) |-> s[kept[k]]]

\* re.sub(r'\s+([P])', r'\1', s)
RemoveSpaceBefore(s, P) ==
    LET Drop(i) == /\ IsSpace(s[i])
                   /\ \E j \in (i + 1)..Len(s) :
                         s[j] \in P /\ \A k \in i..(j - 1) : IsSpace(s[k])
    IN  Without(s, Drop)

\* re.sub(r'([P])([letter])', r'\1 \2', s)
InsertSpaceAfter(s, P, IsLetter(_)) ==
    Concat([i \in 1..Len(s) |->
               IF s[i] \in P /\ i < Len(s) /\ IsLetter(s[i + 1])
               THEN <<s[i], 32>> ELSE <<s[i]>>])

\* re.sub(r'([P]){2,}', r'\1', s): a run of two or more keeps its last character
CollapsePunctuation(s, P) ==
    LET Drop(i) == s[i] \in P /\ i < Len(s) /\ s[i + 1] \in P
    IN  Without(s, Drop)

\* the capitalisation loop of _clean_up_natural_text over
\* re.split(r'([.!?。！？]\s*)', s), joined and stripped: every piece between
\* delimiters is stripped and its first character upper-cased when alphabetic
CapitalizeSentences(s) ==
    LET t == RemoveSpaceBefore(s, Terminal)
        First(i) ==
            /\ t[i] \notin Terminal /\ ~IsSpace(t[i])
            /\ \/ \A j \in 1..(i - 1) : IsSpace(t[j])
               \/ \E j \in 1..(i - 1) :
                     t[j] \in Terminal /\ \A k \in (j + 1)..(i - 1) : IsSpace(t[k])
    IN  Strip([i \in 1..Len(t) |->
                  IF First(i) /\ IsAlpha(t[i]) THEN Upper(t[i]) ELSE t[i]])

\* _clean_up_natural_text
CleanUpNaturalText(t) ==
    CollapsePunctuation(
        CapitalizeSentences(
            InsertSpaceAfter(
                InsertSpaceAfter(
                    RemoveSpaceBefore(
                        RemoveSpaceBefore(CollapseSpaces(t),
                                          {12290, 65292, 65281, 65311, 65306, 65307}),
                        {46, 33, 63, 58, 59, 44}),
                    AsciiTerminal, IsLetterAZ),
                ChineseTerminal, IsLetterAZ)),
        Terminal)

\* _is_chinese_character
IsChineseCharacter(t) == AnyChar(t, IsChinese)

\* text_parts of _build_sentence_from_words: the stripped non-empty word texts,
\* a punctuation word attached to the part before it
RECURSIVE TextParts(_, _, _)
TextParts(words, i, parts) ==
    IF i > Len(words) THEN parts
    ELSE IF Strip(words[i].text) = <<>> THEN TextParts(words, i + 1, parts)
    ELSE IF /\ ~IsChineseCharacter(Strip(words[i].text))
            /\ Len(Strip(words[i].text)) = 1
            /\ Strip(words[i].text)[1] \in Punctuation
            /\ parts # <<>>
         THEN TextParts(words, i + 1,
                        [parts EXCEPT ![Len(parts)] = @ \o Strip(words[i].text)])
         ELSE TextParts(words, i + 1, Append(parts, Strip(words[i].text)))

\* the join of _build_sentence_from_words: a space before a part unless it is
\* the first, it or the part before it has a Chinese character, or it starts
\* with punctuation
JoinParts(parts) ==
    Concat([i \in 1..Len(parts) |->
               IF \/ i = 1
                  \/ IsChineseCharacter(parts[i])
                  \/ IsChineseCharacter(parts[i - 1])
                  \/ parts[i][1] \in Punctuation
               THEN parts[i] ELSE <<32>> \o parts[i]])

\* _build_sentence_from_words
BuildSentenceFromWords(words) == JoinParts(TextParts(words, 1, <<>>))

\* the words that pass the confidence filter of _create_natural_text_from_timeline
AllowList ==
    { <<46>>, <<44>>, <<33>>, <<63>>, <<30340>>, <<26159>>, <<20102>>,
      <<1080>>, <<1074>>, <<1085, 1072>>, <<1089>>,
      <<97>>, <<116, 104, 101>>, <<105, 115>>, <<116, 111>> }

confidence_threshold == 30

PassesFilter(w) ==
    \/ w.confidence >= confidence_threshold
    \/ Len(Strip(w.text)) <= 2
    \/ Strip(w.text) \in AllowList

\* high_confidence_words, with the fallback to all words
HighConfidenceWords(words) ==
    IF SelectSeq(words, PassesFilter) = <<>> THEN words
    ELSE SelectSeq(words, PassesFilter)

\* str.endswith((".", "!", "?", "。", "！", "？"))
EndsWithTerminal(t) == t # <<>> /\ t[Len(t)] \in Terminal

\* sentences with a finished sentence appended unless it is blank
AddSentence(sentences, sentence_text) ==
    IF Strip(sentence_text) # <<>> THEN Append(sentences, sentence_text) ELSE sentences

\* the sentence loop of _create_natural_text_from_timeline (lines 321-363);
\* last_speaker "" stands for None
RECURSIVE Sentences(_, _, _, _, _)
Sentences(hcw, i, sentences, current_sentence, last_speaker) ==
    IF i > Len(hcw)
    THEN IF current_sentence # <<>>
         THEN AddSentence(sentences, BuildSentenceFromWords(current_sentence))
         ELSE sentences
    ELSE IF Strip(hcw[i].text) = <<>>
    THEN Sentences(hcw, i + 1, sentences, current_sentence, last_speaker)
    ELSE IF /\ current_sentence # <<>>
            /\ \/ last_speaker # "" /\ hcw[i].speaker # last_speaker
               \/ i > 1 /\ hcw[i].start - hcw[i - 1].end > 2000
               \/ EndsWithTerminal(current_sentence[Len(current_sentence)].text)
    THEN Sentences(hcw, i + 1,
                   AddSentence(sentences, BuildSentenceFromWords(current_sentence)),
                   <<hcw[i]>>, hcw[i].speaker)
    ELSE Sentences(hcw, i + 1, sentences, Append(current_sentence, hcw[i]),
                   hcw[i].speaker)

\* _create_natural_text_from_timeline
CreateNaturalTextFromTimeline(words) ==
    IF words = <<>> THEN <<>>
    ELSE CleanUpNaturalText(
             Strip(JoinWith(Sentences(HighConfidenceWords(words), 1, <<>>, <<>>, ""),
                            <<32>>)))

----------------------------------------------------------------------------
(* EnhancedTranscriptionService: the unified timeline *)

\* a word of a provider result; start and end in the provider's unit,
\* confidence in hundredths
RawWord(t, s, e, c, sp) ==
    [text |-> t, start |-> s, end |-> e, confidence |-> c, speaker |-> sp]

\* a word of the timeline; start and end in thousandths of a second
TimedWord(t, s, e, c, sp, src) ==
    [text |-> t, start |-> s, end |-> e, confidence |-> c, speaker |-> sp,
     source |-> src]

\* str.split(): the maximal runs of non-whitespace characters
RECURSIVE SplitWhitespace(_, _, _, _)
SplitWhitespace(s, i, cur, acc) ==
    IF i > Len(s) THEN (IF cur # <<>> THEN Append(acc, cur) ELSE acc)
    ELSE IF IsSpace(s[i])
         THEN SplitWhitespace(s, i + 1, <<>>, IF cur # <<>> THEN Append(acc, cur) ELSE acc)
         ELSE SplitWhitespace(s, i + 1, Append(cur, s[i]), acc)

\* the words of one participant of a list-shaped result (lines 467-479):
\* times are taken as they are, in seconds
ParticipantWords(p, source) ==
    [i \in 1..Len(p.words) |->
        TimedWord(p.words[i].text, p.words[i].start * 1000, p.words[i].end * 1000,
                  p.words[i].confidence,
                  IF p.words[i].speaker # "" THEN p.words[i].speaker ELSE p.speaker,
                  source)]

\* _extract_words_with_timestamps
ExtractWordsWithTimestamps(result, source) ==
    IF result.kind = "list"
    THEN Concat([k \in 1..Len(result.participants) |->
                    ParticipantWords(result.participants[k], source)])
    ELSE IF result.kind = "dict" /\ result.has_words
    THEN \* times are milliseconds, divided by 1000.0
         [i \in 1..Len(result.words) |->
             TimedWord(result.words[i].text, result.words[i].start,
                       result.words[i].end, result.words[i].confidence,
                       result.words[i].speaker, source)]
    ELSE IF result.kind = "dict"
    THEN \* half a second for each word of the text
         LET text_words == SplitWhitespace(result.text, 1, <<>>, <<>>)
         IN  [i \in 1..Len(text_words) |->
                 TimedWord(text_words[i], (i - 1) * 500, i * 500, 100, "Unknown", source)]
    ELSE <<>>

\* list.sort(key=start) with every tie turned round
SortByStart_TiesReversed(ws) ==
    LET Before(i, j) == ws[i].start < ws[j].start \/ (ws[i].start = ws[j].start /\ i > j)
        Rank(i) == Cardinality({j \in 1..Len(ws) : Before(j, i)}) + 1
    IN  [k \in 1..Len(ws) |-> ws[CHOOSE i \in 1..Len(ws) : Rank(i) = k]]

\* all_words.sort(key=lambda w: w.get("start", 0)): a stable sort
SortByStart(ws) ==
    LET Before(i, j) == ws[i].start < ws[j].start \/ (ws[i].start = ws[j].start /\ i < j)
        Rank(i) == Cardinality({j \in 1..Len(ws) : Before(j, i)}) + 1
    IN  [k \in 1..Len(ws) |-> ws[CHOOSE i \in 1..Len(ws) : Rank(i) = k]]

\* a grouping that starts a segment at every word
GroupWordsBySpeaker_SegmentPerWord(words, i, segments) ==
    [k \in 1..Len(words) |->
        [speaker |-> words[k].speaker, start |-> words[k].start,
         end |-> words[k].end, words |-> <<words[k]>>, text |-> words[k].text]]

\* _group_words_by_speaker
RECURSIVE GroupWordsBySpeaker(_, _, _)
GroupWordsBySpeaker(words, i, segments) ==
    IF i > Len(words) THEN segments
    ELSE IF segments = <<>> \/ segments[Len(segments)].speaker # words[i].speaker
    THEN GroupWordsBySpeaker(words, i + 1,
             Append(segments,
                    [speaker |-> words[i].speaker, start |-> words[i].start,
                     end |-> words[i].end, words |-> <<words[i]>>,
                     text |-> words[i].text]))
    ELSE GroupWordsBySpeaker(words, i + 1,
             [segments EXCEPT ![Len(segments)] =
                 [@ EXCEPT !.words = Append(@, words[i]),
                           !.text = @ \o <<32>> \o words[i].text,
                           !.end = words[i].end]])

\* all_words before the sort (lines 267-275): the words of every approach that
\* is available and has a truthy result, in the order of the approaches
AllWords(ap) ==
    Concat([k \in 1..Len(ap) |->
               IF ap[k].available /\ Truthy(ap[k].result)
               THEN ExtractWordsWithTimestamps(ap[k].result, ap[k].name)
               ELSE <<>>])

\* the dict built at lines 289-294
UnifiedTranscript(unified_text, all_words) ==
    [text |-> unified_text,
     unified_words |-> all_words,
     speaker_segments |-> GroupWordsBySpeaker(all_words, 1, <<>>),
     total_words |-> Len(all_words)]

\* {"text": "", "words": [], "unified_words": []}
EmptyTimeline == [text |-> <<>>, words |-> <<>>, unified_words |-> <<>>]

\* the timeline keeping only the words that pass the confidence filter
TimelineOf_FilteredWords(all_words) ==
    UnifiedTranscript(CreateNaturalTextFromTimeline(all_words),
                      SelectSeq(all_words, PassesFilter))

\* lines 283-294: the text is built from all_words, which stays as it is
TimelineOf(all_words) ==
    UnifiedTranscript(CreateNaturalTextFromTimeline(all_words), all_words)

\* _create_unified_timeline_transcript
CreateUnifiedTimelineTranscript(ap) ==
    IF AllWords(ap) = <<>>
    THEN EmptyTimeline
    ELSE TimelineOf(SortByStart(AllWords(ap)))

----------------------------------------------------------------------------
(* EnhancedTranscriptionService: post-processing *)

\* str.split('. ')
RECURSIVE SplitDotSpace(_, _, _, _)
SplitDotSpace(s, i, cur, acc) ==
    IF i > Len(s) THEN Append(acc, cur)
    ELSE IF s[i] = 46 /\ i < Len(s) /\ s[i + 1] = 32
         THEN SplitDotSpace(s, i + 2, <<>>, Append(acc, cur))
         ELSE SplitDotSpace(s, i + 1, Append(cur, s[i]), acc)

\* sentence[0].upper() + sentence[1:]
Capitalize(s) == IF s = <<>> THEN s ELSE <<Upper(s[1])>> \o Tail(s)

\* capitalized_sentences (lines 713-720): the non-empty pieces, stripped and
\* capitalized
CapitalizedSentences(pieces) ==
    LET NonEmpty(p) == p # <<>>
        kept == SelectSeq(pieces, NonEmpty)
    IN  [k \in 1..Len(kept) |-> Capitalize(Strip(kept[k]))]

\* step 3 of _apply_algorithmic_improvements
CapitalizeDotSentences(s) ==
    IF CapitalizedSentences(SplitDotSpace(s, 1, <<>>, <<>>)) = <<>> THEN s
    ELSE JoinWith(CapitalizedSentences(SplitDotSpace(s, 1, <<>>, <<>>)), <<46, 32>>)

\* _apply_algorithmic_improvements; the text is all it reads
ApplyAlgorithmicImprovements(t) ==
    Strip(CollapsePunctuation(
              CapitalizeDotSentences(
                  InsertSpaceAfter(CollapseSpaces(t), AsciiTerminal, IsLetterLower)),
              AsciiTerminal))

----------------------------------------------------------------------------
(* DirectAssemblyAIService: post-processing of one model's result *)

\* [a-zA-Zа-яё一-鿿]
IsLetterOrChinese(c) == IsLetterLower(c) \/ IsChinese(c)

\* the capitalisation loop of _apply_text_improvements over
\* re.split(r'([.!?]\s+)', s), joined: every piece between delimiters is
\* stripped and its first character upper-cased when alphabetic; a blank piece
\* stays as it is
CapitalizeSentenceStarts(s) ==
    LET Delim(j) == s[j] \in AsciiTerminal /\ j < Len(s) /\ IsSpace(s[j + 1])
        \* whitespace at the end of a piece that is not blank
        Trail(i) == /\ IsSpace(s[i])
                    /\ \E j \in 1..(i - 1) : ~IsSpace(s[j])
                    /\ \/ \A k \in i..Len(s) : IsSpace(s[k])
                       \/ \E j \in (i + 1)..Len(s) :
                             Delim(j) /\ \A k \in i..(j - 1) : IsSpace(s[k])
                    /\ ~\E j \in 1..(i - 1) :
                             Delim(j) /\ \A k \in (j + 1)..i : IsSpace(s[k])
        \* whitespace at the start of the first piece when it is not blank
        Lead(i) == /\ \A j \in 1..i : IsSpace(s[j])
                   /\ \E j \in (i + 1)..Len(s) :
                         /\ ~IsSpace(s[j]) /\ ~Delim(j)
                         /\ \A k \in (i + 1)..(j - 1) : IsSpace(s[k])
        First(i) ==
            /\ ~IsSpace(s[i]) /\ ~Delim(i)
            /\ \/ \A j \in 1..(i - 1) : IsSpace(s[j])
               \/ \E j \in 1..(i - 2) : Delim(j) /\ \A k \in (j + 1)..(i - 1) : IsSpace(s[k])
        Drop(i) == Trail(i) \/ Lead(i)
    IN  Without([i \in 1..Len(s) |->
                    IF First(i) /\ IsAlpha(s[i]) THEN Upper(s[i]) ELSE s[i]], Drop)

\* _apply_text_improvements; the text is all it reads
ApplyTextImprovements(t) ==
    Strip(CollapsePunctuation(
              CapitalizeSentenceStarts(
                  InsertSpaceAfter(CollapseSpaces(t), AsciiTerminal, IsLetterOrChinese)),
              AsciiTerminal))

----------------------------------------------------------------------------
(* The strategies and their tasks *)

\* lesson_type of transcribe_with_multiple_models: its default value, because
\* _transcribe_via_direct_assemblyai passes none
DirectLessonType == "chinese"

\* an exception that asyncio.gather(return_exceptions=True) stored as a result
Raised == [kind |-> "exception"]

\* a gather that returns at the first task to finish
GatherDone_FirstCompleted(pcs) == \E i \in DOMAIN pcs : pcs[i] = "settled"

\* await asyncio.gather(...): every task has returned or raised
GatherDone(pcs) == \A i \in DOMAIN pcs : pcs[i] = "settled"

\* lines 115-123 of _transcribe_via_recall: a truthy result gets the key
\* "transcription_method"; on a list the assignment raises TypeError, which
\* the handler of the method turns into None
TagRecallResult(result) == IF result.kind = "list" THEN None ELSE result

\* _apply_intelligent_post_processing of DirectAssemblyAIService
PostProcessModelResult(data) ==
    IF data.text = <<>> THEN data
    ELSE [data EXCEPT !.text = ApplyTextImprovements(@)]

\* processed_results of transcribe_with_multiple_models (lines 199-203): the
\* values that are neither exceptions nor falsy, under their task names
ProcessedResultsOf(values) ==
    LET Usable(i) == values[i].kind = "dict"
        idx == SelectSeq([i \in 1..Len(values) |-> i], Usable)
    IN  [k \in 1..Len(idx) |->
            [name |-> TaskNames(DirectLessonType)[idx[k]], result |-> values[idx[k]]]]

\* the result and the selected_model that
\* _combine_transcription_results_intelligently gives for analysed results
SelectedResult(ra, best) ==
    IF best # "None" /\ Truthy(ra[CHOOSE i \in 1..Len(ra) : ra[i].name = best].result)
    THEN [result |-> ra[CHOOSE i \in 1..Len(ra) : ra[i].name = best].result,
          selected_model |-> best]
    ELSE [result |-> ra[1].result, selected_model |-> "fallback"]

\* _combine_transcription_results_intelligently, given what langdetect answers
\* for each text
CombineTranscriptionResultsIntelligently(pr, libs, config_lesson_type) ==
    IF pr = <<>>
    THEN [result |-> NoSuccessfulTranscriptions, selected_model |-> "None"]
    ELSE SelectedResult(
             [i \in 1..Len(pr) |->
                 AnalyzeResult(pr[i].name, pr[i].result, libs[i], config_lesson_type)],
             SelectBestApproachByComprehensiveScore(
                 [i \in 1..Len(pr) |->
                     AnalyzeResult(pr[i].name, pr[i].result, libs[i], config_lesson_type)],
                 config_lesson_type))

----------------------------------------------------------------------------
(* EnhancedTranscriptionService: the combined result *)

\* {} where an approach has no language analysis
EmptyDict == [kind |-> "empty_dict"]

\* approaches_analysis (lines 243-250)
ApproachesAnalysis(ap) ==
    [i \in 1..Len(ap) |->
        [name |-> ap[i].name,
         available |-> ap[i].available,
         language_analysis |-> IF ap[i].available THEN ap[i].language_analysis
                               ELSE EmptyDict,
         quality_score |-> ap[i].quality_score]]

\* combined_result of _combine_all_approaches after lines 229-254: the copy of
\* the best approach's result, or {"text": "", "words": []}, updated with the
\* unified transcript and the metadata; error tells whether it has an "error" key
CombinedResultOf(res, ap, best, uni, lt) ==
    [text |-> uni.text,
     words |-> IF "words" \in DOMAIN uni THEN uni.words
               ELSE IF res.kind = "dict" THEN res.words ELSE <<>>,
     error |-> res.kind = "dict" /\ res.error,
     unified_words |-> uni.unified_words,
     speaker_segments |-> IF "speaker_segments" \in DOMAIN uni
                          THEN uni.speaker_segments ELSE <<>>,
     enhanced_transcription |-> TRUE,
     primary_method |-> best,
     unified_timeline |-> TRUE,
     approaches_analysis |-> ApproachesAnalysis(ap),
     lesson_type |-> lt,
     post_processing_applied |-> FALSE,
     language_analysis |-> EmptyDict,
     yandexgpt_correction_applied |-> "absent",
     yandexgpt_correction_error |-> FALSE,
     formatted_outputs |-> EmptyDict]

CombinedResult(ap, best, uni, lt) ==
    CombinedResultOf(ap[CHOOSE i \in 1..Len(ap) : ap[i].name = best].result,
                     ap, best, uni, lt)

\* what _correct_chinese_transcript may do with a text: raise, or return "",
\* "OK", or the text with a Chinese character added
YandexOutcomes(t) ==
    { [raises |-> TRUE, text |-> <<>>, called |-> TRUE] }
    \cup { [raises |-> FALSE, text |-> r, called |-> TRUE]
           : r \in {<<>>, <<79, 75>>, t \o <<22909>>} }

\* YandexGPT is not called
NoCorrection == [raises |-> FALSE, text |-> <<>>, called |-> FALSE]

\* lines 657-680 of _apply_intelligent_post_processing: the text kept and the
\* keys set after the correction
Corrected(improved_text, y) ==
    IF ~y.called
    THEN [text |-> improved_text, applied |-> "absent", error |-> FALSE]
    ELSE IF y.raises
    THEN [text |-> improved_text, applied |-> "false", error |-> TRUE]
    ELSE IF y.text # <<>> /\ Len(Strip(y.text)) > 0 /\ AnyChar(y.text, IsChinese)
    THEN [text |-> y.text, applied |-> "true", error |-> FALSE]
    ELSE [text |-> improved_text, applied |-> "false", error |-> FALSE]

\* whether _apply_intelligent_post_processing calls YandexGPT (line 657)
CallsYandex(lt, service, improved_text) ==
    lt = "chinese" /\ service /\ improved_text # <<>>

\* the result after _apply_intelligent_post_processing
PostProcessedOf(result, la, c) ==
    [result EXCEPT !.text = c.text,
                   !.language_analysis = la,
                   !.post_processing_applied = TRUE,
                   !.yandexgpt_correction_applied = c.applied,
                   !.yandexgpt_correction_error = c.error]

\* _create_formatted_outputs: unified_text; the other outputs render
\* speaker_segments and unified_words as lines of text
CreateFormattedOutputs(result) == [unified_text |-> result.text]

----------------------------------------------------------------------------
(* Inputs *)

\* sample pieces: "Привет", "你好", "hello", " ", six spaces, ".", "?!,:;"
Pieces ==
    << <<1055, 1088, 1080, 1074, 1077, 1090>>,
       <<20320, 22909>>,
       <<104, 101, 108, 108, 111>>,
       <<32>>,
       <<32, 32, 32, 32, 32, 32>>,
       <<46>>,
       <<63, 33, 44, 58, 59>> >>

\* every concatenation of at most MaxPieces pieces
Texts ==
    UNION { { Concat([i \in 1..n |-> Pieces[f[i]]]) : f \in [1..n -> 1..Len(Pieces)] }
            : n \in 0..MaxPieces }

\* what langdetect may answer: LangDetectException, or detect() and detect_langs()
LibFailure == [success |-> FALSE, primary_language |-> "unknown", languages |-> <<>>]

LP(l, p) == [language |-> l, probability |-> p]

LibAnswers ==
    { LibFailure,
      [success |-> TRUE, primary_language |-> "unknown", languages |-> <<>>],
      [success |-> TRUE, primary_language |-> "ru", languages |-> <<LP("ru", 99)>>],
      [success |-> TRUE, primary_language |-> "en", languages |-> <<LP("en", 99)>>],
      [success |-> TRUE, primary_language |-> "zh-cn", languages |-> <<LP("zh-cn", 99)>>],
      [success |-> TRUE, primary_language |-> "ru",
       languages |-> <<LP("ru", 57), LP("en", 42)>>],
      [success |-> TRUE, primary_language |-> "en",
       languages |-> <<LP("ru", 57), LP("en", 42)>>],
      [success |-> TRUE, primary_language |-> "mk",
       languages |-> <<LP("mk", 85), LP("ru", 14)>>],
      [success |-> TRUE, primary_language |-> "en",
       languages |-> <<LP("en", 71), LP("zh-cn", 28)>>],
      [success |-> TRUE, primary_language |-> "ko",
       languages |-> <<LP("ko", 90), LP("en", 9)>>] }

LessonTypeArgs == {"chinese", "english", "spanish", "unknown"}

\* s repeated n times
Repeat(s, n) == [i \in 1..(n * Len(s)) |-> s[((i - 1) % Len(s)) + 1]]

\* sample transcript texts: "", "你好 再见", "Привет你好", "Hello hello",
\* "Привет hello", and "你好" fifty times (100 characters)
SelTexts ==
    { <<>>,
      <<20320, 22909, 32, 20877, 35265>>,
      <<1055, 1088, 1080, 1074, 1077, 1090, 20320, 22909>>,
      <<72, 101, 108, 108, 111, 32, 104, 101, 108, 108, 111>>,
      <<1055, 1088, 1080, 1074, 1077, 1090, 32, 104, 101, 108, 108, 111>>,
      Repeat(<<20320, 22909>>, 50) }

\* langdetect answers used for the sample results
SelLibAnswers ==
    { LibFailure,
      [success |-> TRUE, primary_language |-> "ru",
       languages |-> <<LP("ru", 57), LP("en", 42)>>] }

\* sample transcription results: every sample text with provider confidence
\* 0.95, except "Привет你好" with confidence 0.0
SampleResults ==
    { Dict(t, <<>>, IF t = <<1055, 1088, 1080, 1074, 1077, 1090, 20320, 22909>>
                    THEN 0 ELSE 95, FALSE) : t \in SelTexts }

\* the successful result of one model, or None when it failed
ModelOutcomes == {None} \cup SampleResults

\* processed_results: the successful model results, in task order
ProcessedResults(lesson_type) ==
    LET names == TaskNames(lesson_type)
    IN  { LET Present(i) == f[i].kind # "none"
              idx == SelectSeq([i \in 1..Len(names) |-> i], Present)
          IN  [k \in 1..Len(idx) |-> [name |-> names[idx[k]], result |-> f[idx[k]]]]
          : f \in [1..Len(names) -> ModelOutcomes] }

\* what _transcribe_via_recall may return: None, an empty list, a flat object
RecallResultArgs == {None, [kind |-> "empty_list"]} \cup SampleResults

\* what _transcribe_via_direct_assemblyai may return
DirectResultArgs == {None, NoSuccessfulTranscriptions} \cup SampleResults

\* sample words of flat results (times in milliseconds): "привет", "hello"
\* with confidence 0.1, "你好", "мир." and "the" with confidence 0.1
WordPool ==
    << RawWord(<<1087, 1088, 1080, 1074, 1077, 1090>>, 0, 400, 95, "A"),
       RawWord(<<104, 101, 108, 108, 111>>, 0, 500, 10, "A"),
       RawWord(<<20320, 22909>>, 1000, 1500, 95, "B"),
       RawWord(<<1084, 1080, 1088, 46>>, 1000, 1400, 95, "A"),
       RawWord(<<116, 104, 101>>, 4000, 4300, 10, "B") >>

\* every word list of at most MaxWords sample words
WordLists ==
    UNION { { [i \in 1..n |-> WordPool[f[i]]] : f \in [1..n -> 1..Len(WordPool)] }
            : n \in 0..MaxWords }

\* the text of a provider result with these words
TextOfWords(ws) == JoinWith([i \in 1..Len(ws) |-> ws[i].text], <<32>>)

\* flat results with a word list
WordResults == { Dict(TextOfWords(ws), ws, 95, FALSE) : ws \in WordLists }

\* the approaches of _combine_all_approaches as the timeline reads them
TimelineApproaches(recall_res, direct_res) ==
    << [name |-> "recall_api", result |-> recall_res,
        available |-> IsAvailable(recall_res)],
       [name |-> "direct_assemblyai", result |-> direct_res,
        available |-> IsAvailable(direct_res)] >>

\* what AssemblyAI returns for a completed transcription: "привет. 你好" with
\* two words, or "你好" with one word
ModelData ==
    { Dict(<<1087, 1088, 1080, 1074, 1077, 1090, 46, 32, 20320, 22909>>,
           << RawWord(<<1087, 1088, 1080, 1074, 1077, 1090, 46>>, 0, 400, 95, "A"),
              RawWord(<<20320, 22909>>, 1000, 1500, 95, "B") >>, 95, FALSE),
      Dict(<<20320, 22909>>,
           << RawWord(<<20320, 22909>>, 1000, 1500, 95, "B") >>, 90, FALSE) }

\* a completed transcription whose text is not a string, so that the
\* post-processing raises
Malformed == [kind |-> "malformed"]

\* what one poll may see: completed with data, error, or a response after which
\* the loop goes on (queued, processing, another status, an exception)
PollResponses ==
    { [status |-> "completed", data |-> d] : d \in ModelData \cup {Malformed} }
    \cup { [status |-> "error", data |-> None], [status |-> "pending", data |-> None] }

\* what the transcript download of Recall may return: an empty list, a list of
\* participants, or a flat object "hello мир." with two words
RecallData ==
    { [kind |-> "empty_list"],
      [kind |-> "list",
       participants |->
           << [speaker |-> "A",
               words |-> << RawWord(<<104, 101, 108, 108, 111>>, 0, 1, 95, "") >>] >>],
      Dict(<<104, 101, 108, 108, 111, 32, 1084, 1080, 1088, 46>>,
           << RawWord(<<104, 101, 108, 108, 111>>, 0, 500, 10, "A"),
              RawWord(<<1084, 1080, 1088, 46>>, 1000, 1400, 95, "A") >>, 0, FALSE) }

----------------------------------------------------------------------------
(* SpecLang: one call of detect_language_mix, then calculate_quality_score *)

InitLang ==
    /\ ld_pc = "input"
    /\ text \in Texts
    /\ detection_result = EmptyDetectionResult
    /\ ld_calls = {}
    /\ expected_lesson_type = "unknown"
    /\ score = 0
    \* no selector call
    /\ sel_pc = "idle"
    /\ sel_lesson_type = "chinese"
    /\ results = <<>>
    /\ sel_recall_result = None
    /\ sel_direct_result = None
    /\ candidates = <<>>
    /\ scores = <<>>
    /\ best_approach = "None"
    \* no timeline call
    /\ tl_pc = "idle"
    /\ tl_approaches = <<>>
    /\ unified_transcript = EmptyTimeline
    \* no run of transcribe_lesson
    /\ run_pc = "idle"
    /\ run_lesson_type = "chinese"
    /\ yandex_service = FALSE
    /\ recall_pc = "idle"
    /\ recall_data = None
    /\ recall_result = None
    /\ direct_pc = "idle"
    /\ direct_result = None
    /\ model_pc = <<>>
    /\ model_value = <<>>
    /\ polls = <<>>
    /\ selected_model = "None"
    /\ approaches = <<>>
    /\ unified = EmptyTimeline
    /\ primary_method = "None"
    /\ combined_result = None
    \* no cleanup call
    /\ pp_pc = "idle"
    /\ pp_function = "None"
    /\ pp_text = <<>>
    /\ pp_first = <<>>
    /\ pp_second = <<>>
    \* no _determine_lesson_type call
    /\ lt_pc = "idle"
    /\ lt_combined = [primary_language |-> "unknown", languages |-> <<>>]
    /\ lt_lesson_type = "None"
    \* no lesson
    /\ lesson_status = "None"
    /\ lesson_transcript_id = "None"
    /\ service_lesson_type = "chinese"
    /\ webhooks = 0
    /\ bg_pc = <<>>
    /\ bg_result = <<>>

CallDetectLanguageMix ==
    /\ ld_pc = "input"
    /\ \E lib \in LibAnswers :
          LET r == DetectLanguageMixTraced(text, lib)
          IN  /\ detection_result' = r.result
              /\ ld_calls' = r.calls
    /\ ld_pc' = "detected"
    /\ UNCHANGED <<text, expected_lesson_type, score>>
    /\ UNCHANGED <<sel_vars, tl_vars, run_vars, pp_vars, lt_vars, wh_vars>>

CallCalculateQualityScore ==
    /\ ld_pc = "detected"
    /\ \E e \in LessonTypeArgs :
          /\ expected_lesson_type' = e
          /\ score' = CalculateQualityScore(detection_result, e)
    /\ ld_pc' = "scored"
    /\ UNCHANGED <<text, detection_result, ld_calls>>
    /\ UNCHANGED <<sel_vars, tl_vars, run_vars, pp_vars, lt_vars, wh_vars>>

NextLang == CallDetectLanguageMix \/ CallCalculateQualityScore

----------------------------------------------------------------------------
(* SpecSelect: one call of _combine_transcription_results_intelligently     *)
(* (analysis and _select_best_approach_by_comprehensive_score), or of the   *)
(* analysis and _select_best_approach_by_quality of _combine_all_approaches *)

InitSelect ==
    /\ sel_pc \in {"models", "approaches"}
    /\ sel_lesson_type \in LessonTypeArgs
    /\ IF sel_pc = "models"
       THEN /\ sel_lesson_type \in {"chinese", "english"}
            /\ results \in ProcessedResults(sel_lesson_type)
            /\ sel_recall_result = None
            /\ sel_direct_result = None
       ELSE /\ results = <<>>
            /\ sel_recall_result \in RecallResultArgs
            /\ sel_direct_result \in DirectResultArgs
    /\ candidates = <<>>
    /\ scores = <<>>
    /\ best_approach = "None"
    \* no language-detection call
    /\ ld_pc = "idle"
    /\ text = <<>>
    /\ detection_result = EmptyDetectionResult
    /\ ld_calls = {}
    /\ expected_lesson_type = "unknown"
    /\ score = 0
    \* no timeline call
    /\ tl_pc = "idle"
    /\ tl_approaches = <<>>
    /\ unified_transcript = EmptyTimeline
    \* no run of transcribe_lesson
    /\ run_pc = "idle"
    /\ run_lesson_type = "chinese"
    /\ yandex_service = FALSE
    /\ recall_pc = "idle"
    /\ recall_data = None
    /\ recall_result = None
    /\ direct_pc = "idle"
    /\ direct_result = None
    /\ model_pc = <<>>
    /\ model_value = <<>>
    /\ polls = <<>>
    /\ selected_model = "None"
    /\ approaches = <<>>
    /\ unified = EmptyTimeline
    /\ primary_method = "None"
    /\ combined_result = None
    \* no cleanup call
    /\ pp_pc = "idle"
    /\ pp_function = "None"
    /\ pp_text = <<>>
    /\ pp_first = <<>>
    /\ pp_second = <<>>
    \* no _determine_lesson_type call
    /\ lt_pc = "idle"
    /\ lt_combined = [primary_language |-> "unknown", languages |-> <<>>]
    /\ lt_lesson_type = "None"
    \* no lesson
    /\ lesson_status = "None"
    /\ lesson_transcript_id = "None"
    /\ service_lesson_type = "chinese"
    /\ webhooks = 0
    /\ bg_pc = <<>>
    /\ bg_result = <<>>

\* _combine_transcription_results_intelligently, lines 222-248
CallSelectByComprehensiveScore ==
    /\ sel_pc = "models"
    /\ \E libs \in [1..Len(results) -> SelLibAnswers] :
        \E lt \in {ConfigLessonType(sel_lesson_type)} :
        \E ra \in {[i \in 1..Len(results) |->
                       AnalyzeResult(results[i].name, results[i].result, libs[i], lt)]} :
              /\ candidates' = ra
              /\ scores' = ComprehensiveScores(ra, lt)
              /\ best_approach' = SelectBestApproachByComprehensiveScore(ra, lt)
    /\ sel_pc' = "model_selected"
    /\ UNCHANGED <<sel_lesson_type, results, sel_recall_result, sel_direct_result>>
    /\ UNCHANGED <<ld_vars, tl_vars, run_vars, pp_vars, lt_vars, wh_vars>>

\* _combine_all_approaches, lines 199-227
CallSelectByQuality ==
    /\ sel_pc = "approaches"
    /\ \E lib1 \in SelLibAnswers, lib2 \in SelLibAnswers :
        \E ap \in {<< Approach("recall_api", sel_recall_result, lib1, sel_lesson_type),
                       Approach("direct_assemblyai", sel_direct_result, lib2,
                                sel_lesson_type) >>} :
              /\ candidates' = ap
              /\ scores' = QualityScores(ap, sel_lesson_type)
              /\ best_approach' = SelectBestApproachByQuality(ap, sel_lesson_type)
    /\ sel_pc' = "approach_selected"
    /\ UNCHANGED <<sel_lesson_type, results, sel_recall_result, sel_direct_result>>
    /\ UNCHANGED <<ld_vars, tl_vars, run_vars, pp_vars, lt_vars, wh_vars>>

NextSelect == CallSelectByComprehensiveScore \/ CallSelectByQuality

----------------------------------------------------------------------------
(* SpecTimeline: one call of _create_unified_timeline_transcript *)

InitTimeline ==
    /\ tl_pc = "input"
    /\ \E r \in {None, [kind |-> "empty_list"],
                  TextOnly(<<1076, 1072, 32, 32, 20320, 22909, 32>>),
                  \* a word whose text is empty before the word "hello"
                  Dict(<<104, 101, 108, 108, 111>>,
                       << RawWord(<<>>, 0, 100, 95, "A"),
                          RawWord(<<104, 101, 108, 108, 111>>, 0, 500, 10, "A") >>,
                       95, FALSE),
                  \* a flat result whose provider reports seconds, and a list
                  \* of participants whose provider reports milliseconds;
                  \* "unit" is not a key of the result, it records the unit
                  Dict(<<104, 101, 108, 108, 111>>,
                       << RawWord(<<104, 101, 108, 108, 111>>, 2, 3, 95, "A") >>,
                       95, FALSE) @@ [unit |-> "s"],
                  [kind |-> "list", unit |-> "ms",
                   participants |->
                       << [speaker |-> "A",
                           words |-> << RawWord(<<104, 101, 108, 108, 111>>,
                                                2000, 3000, 95, "") >>] >>]}
                 \cup WordResults,
          d \in {None, NoSuccessfulTranscriptions} \cup WordResults :
          tl_approaches = TimelineApproaches(r, d)
    /\ unified_transcript = EmptyTimeline
    \* no language-detection call
    /\ ld_pc = "idle"
    /\ text = <<>>
    /\ detection_result = EmptyDetectionResult
    /\ ld_calls = {}
    /\ expected_lesson_type = "unknown"
    /\ score = 0
    \* no selector call
    /\ sel_pc = "idle"
    /\ sel_lesson_type = "chinese"
    /\ results = <<>>
    /\ sel_recall_result = None
    /\ sel_direct_result = None
    /\ candidates = <<>>
    /\ scores = <<>>
    /\ best_approach = "None"
    \* no run of transcribe_lesson
    /\ run_pc = "idle"
    /\ run_lesson_type = "chinese"
    /\ yandex_service = FALSE
    /\ recall_pc = "idle"
    /\ recall_data = None
    /\ recall_result = None
    /\ direct_pc = "idle"
    /\ direct_result = None
    /\ model_pc = <<>>
    /\ model_value = <<>>
    /\ polls = <<>>
    /\ selected_model = "None"
    /\ approaches = <<>>
    /\ unified = EmptyTimeline
    /\ primary_method = "None"
    /\ combined_result = None
    \* no cleanup call
    /\ pp_pc = "idle"
    /\ pp_function = "None"
    /\ pp_text = <<>>
    /\ pp_first = <<>>
    /\ pp_second = <<>>
    \* no _determine_lesson_type call
    /\ lt_pc = "idle"
    /\ lt_combined = [primary_language |-> "unknown", languages |-> <<>>]
    /\ lt_lesson_type = "None"
    \* no lesson
    /\ lesson_status = "None"
    /\ lesson_transcript_id = "None"
    /\ service_lesson_type = "chinese"
    /\ webhooks = 0
    /\ bg_pc = <<>>
    /\ bg_result = <<>>

\* _create_unified_timeline_transcript
CallCreateUnifiedTimelineTranscript ==
    /\ tl_pc = "input"
    /\ unified_transcript' = CreateUnifiedTimelineTranscript(tl_approaches)
    /\ tl_pc' = "done"
    /\ UNCHANGED tl_approaches
    /\ UNCHANGED <<ld_vars, sel_vars, run_vars, pp_vars, lt_vars, wh_vars>>

NextTimeline == CallCreateUnifiedTimelineTranscript

----------------------------------------------------------------------------
(* Spec: one run of transcribe_lesson with use_multiple_approaches            *)

Init ==
    /\ run_pc = "start"
    /\ run_lesson_type \in {"chinese", "english"}
    /\ yandex_service \in BOOLEAN
    /\ recall_pc = "idle"
    /\ recall_data = None
    /\ recall_result = None
    /\ direct_pc = "idle"
    /\ direct_result = None
    /\ model_pc = <<>>
    /\ model_value = <<>>
    /\ polls = <<>>
    /\ selected_model = "None"
    /\ approaches = <<>>
    /\ unified = EmptyTimeline
    /\ primary_method = "None"
    /\ combined_result = None
    \* no language-detection call
    /\ ld_pc = "idle"
    /\ text = <<>>
    /\ detection_result = EmptyDetectionResult
    /\ ld_calls = {}
    /\ expected_lesson_type = "unknown"
    /\ score = 0
    \* no selector call
    /\ sel_pc = "idle"
    /\ sel_lesson_type = "chinese"
    /\ results = <<>>
    /\ sel_recall_result = None
    /\ sel_direct_result = None
    /\ candidates = <<>>
    /\ scores = <<>>
    /\ best_approach = "None"
    \* no timeline call
    /\ tl_pc = "idle"
    /\ tl_approaches = <<>>
    /\ unified_transcript = EmptyTimeline
    \* no cleanup call
    /\ pp_pc = "idle"
    /\ pp_function = "None"
    /\ pp_text = <<>>
    /\ pp_first = <<>>
    /\ pp_second = <<>>
    \* no _determine_lesson_type call
    /\ lt_pc = "idle"
    /\ lt_combined = [primary_language |-> "unknown", languages |-> <<>>]
    /\ lt_lesson_type = "None"
    \* no lesson
    /\ lesson_status = "None"
    /\ lesson_transcript_id = "None"
    /\ service_lesson_type = "chinese"
    /\ webhooks = 0
    /\ bg_pc = <<>>
    /\ bg_result = <<>>

\* _transcribe_with_multiple_approaches, lines 66-72: both coroutines are
\* handed to asyncio.gather
TranscribeLesson ==
    /\ run_pc = "start"
    /\ run_pc' = "gather"
    /\ recall_pc' = "create"
    /\ direct_pc' = "audio_url"
    /\ UNCHANGED <<run_lesson_type, yandex_service, recall_data, recall_result, direct_result,
                   model_pc, model_value, polls, selected_model, combine_vars>>
    /\ UNCHANGED <<ld_vars, sel_vars, tl_vars, pp_vars, lt_vars, wh_vars>>

\* _transcribe_via_recall, lines 97-108: create_multilingual_transcript gives a
\* response with an id, or the method returns None
RecallCreateTranscript ==
    /\ recall_pc = "create"
    /\ \E created \in BOOLEAN :
          IF created
          THEN recall_pc' = "sleep" /\ UNCHANGED recall_result
          ELSE recall_pc' = "settled" /\ recall_result' = None
    /\ UNCHANGED recall_data
    /\ UNCHANGED <<run_pc, run_lesson_type, yandex_service, direct_pc, direct_result,
                   model_pc, model_value, polls, selected_model, combine_vars>>
    /\ UNCHANGED <<ld_vars, sel_vars, tl_vars, pp_vars, lt_vars, wh_vars>>

\* _transcribe_via_recall, line 111: asyncio.sleep(10) is over
RecallSleep ==
    /\ recall_pc = "sleep"
    /\ recall_pc' = "get"
    /\ UNCHANGED <<run_pc, run_lesson_type, yandex_service, recall_data, recall_result, direct_pc,
                   direct_result, model_pc, model_value, polls, selected_model,
                   combine_vars>>
    /\ UNCHANGED <<ld_vars, sel_vars, tl_vars, pp_vars, lt_vars, wh_vars>>

\* _transcribe_via_recall, lines 113-123: get_transcript_with_post_processing
\* gives None or the downloaded transcript
RecallGetTranscript ==
    /\ recall_pc = "get"
    /\ \E r \in {None} \cup RecallData :
          /\ recall_data' = r
          /\ recall_result' = TagRecallResult(r)
    /\ recall_pc' = "settled"
    /\ UNCHANGED <<run_pc, run_lesson_type, yandex_service, direct_pc, direct_result,
                   model_pc, model_value, polls, selected_model, combine_vars>>
    /\ UNCHANGED <<ld_vars, sel_vars, tl_vars, pp_vars, lt_vars, wh_vars>>

\* _transcribe_via_direct_assemblyai, lines 135-141: without an audio URL the
\* method returns None, with one transcribe_with_multiple_models hands its
\* transcribe_audio_url coroutines to asyncio.gather
DirectGetAudioUrl ==
    /\ direct_pc = "audio_url"
    /\ \E found \in BOOLEAN :
          IF found
          THEN /\ direct_pc' = "models"
               /\ model_pc' = [i \in 1..Len(TaskNames(DirectLessonType)) |-> "submit"]
               /\ model_value' = [i \in 1..Len(TaskNames(DirectLessonType)) |-> None]
               /\ polls' = [i \in 1..Len(TaskNames(DirectLessonType)) |-> 0]
               /\ UNCHANGED direct_result
          ELSE /\ direct_pc' = "settled"
               /\ direct_result' = None
               /\ UNCHANGED <<model_pc, model_value, polls>>
    /\ UNCHANGED <<run_pc, run_lesson_type, yandex_service, recall_pc, recall_data, recall_result,
                   selected_model, combine_vars>>
    /\ UNCHANGED <<ld_vars, sel_vars, tl_vars, pp_vars, lt_vars, wh_vars>>

\* transcribe_audio_url, lines 45-48: _submit_transcription gives an id or None
ModelSubmit(i) ==
    /\ model_pc[i] = "submit"
    /\ \E submitted \in BOOLEAN :
          model_pc' = [model_pc EXCEPT ![i] = IF submitted THEN "poll" ELSE "settled"]
    /\ UNCHANGED <<run_pc, run_lesson_type, yandex_service, recall_pc, recall_data, recall_result,
                   direct_pc, direct_result, model_value, polls, selected_model,
                   combine_vars>>
    /\ UNCHANGED <<ld_vars, sel_vars, tl_vars, pp_vars, lt_vars, wh_vars>>

\* one iteration of the loop of _poll_transcription, and lines 53-57 of
\* transcribe_audio_url when the loop ends; the count of iterations is a local
\* of the loop and is gone when it ends
ModelPoll(i) ==
    /\ model_pc[i] = "poll"
    /\ \E response \in PollResponses :
          IF response.status = "completed"
          THEN /\ model_value' =
                     [model_value EXCEPT ![i] =
                         IF response.data = Malformed THEN Raised
                         ELSE PostProcessModelResult(response.data)]
               /\ model_pc' = [model_pc EXCEPT ![i] = "settled"]
               /\ polls' = [polls EXCEPT ![i] = 0]
          ELSE IF response.status = "error" \/ polls[i] + 1 >= MaxPolls
          THEN /\ model_pc' = [model_pc EXCEPT ![i] = "settled"]
               /\ polls' = [polls EXCEPT ![i] = 0]
               /\ UNCHANGED model_value
          ELSE /\ polls' = [polls EXCEPT ![i] = @ + 1]
               /\ UNCHANGED <<model_pc, model_value>>
    /\ UNCHANGED <<run_pc, run_lesson_type, yandex_service, recall_pc, recall_data, recall_result,
                   direct_pc, direct_result, selected_model, combine_vars>>
    /\ UNCHANGED <<ld_vars, sel_vars, tl_vars, pp_vars, lt_vars, wh_vars>>

\* transcribe_with_multiple_models, lines 196-210, and
\* _transcribe_via_direct_assemblyai, lines 143-147; the gathered values are
\* locals of transcribe_with_multiple_models and are gone when it returns
DirectCombineModels ==
    /\ direct_pc = "models"
    /\ GatherDone(model_pc)
    /\ \E libs \in [1..Len(ProcessedResultsOf(model_value)) -> SelLibAnswers] :
       \E c \in {CombineTranscriptionResultsIntelligently(
                    ProcessedResultsOf(model_value), libs,
                    ConfigLessonType(DirectLessonType))} :
          /\ direct_result' = c.result
          /\ selected_model' = c.selected_model
    /\ direct_pc' = "settled"
    /\ model_value' = [i \in DOMAIN model_value |-> None]
    /\ UNCHANGED <<run_pc, run_lesson_type, yandex_service, recall_pc, recall_data, recall_result,
                   model_pc, polls, combine_vars>>
    /\ UNCHANGED <<ld_vars, sel_vars, tl_vars, pp_vars, lt_vars, wh_vars>>

\* _transcribe_with_multiple_approaches, lines 72-83, and
\* _combine_all_approaches, lines 199-221
AnalyzeApproaches ==
    /\ run_pc = "gather"
    /\ GatherDone(<<recall_pc, direct_pc>>)
    /\ \E lib1 \in SelLibAnswers, lib2 \in SelLibAnswers :
          approaches' =
              << Approach("recall_api", recall_result, lib1, run_lesson_type),
                 Approach("direct_assemblyai", direct_result, lib2, run_lesson_type) >>
    /\ run_pc' = "unify"
    /\ UNCHANGED <<run_lesson_type, yandex_service, task_vars, unified, primary_method,
                   combined_result>>
    /\ UNCHANGED <<ld_vars, sel_vars, tl_vars, pp_vars, lt_vars, wh_vars>>

\* _combine_all_approaches, line 224
CreateUnifiedTimeline ==
    /\ run_pc = "unify"
    /\ unified' = CreateUnifiedTimelineTranscript(approaches)
    /\ run_pc' = "select"
    /\ UNCHANGED <<run_lesson_type, yandex_service, task_vars, approaches,
                   primary_method, combined_result>>
    /\ UNCHANGED <<ld_vars, sel_vars, tl_vars, pp_vars, lt_vars, wh_vars>>

\* _combine_all_approaches, line 227
SelectBestApproach ==
    /\ run_pc = "select"
    /\ primary_method' = SelectBestApproachByQuality(approaches, run_lesson_type)
    /\ run_pc' = "build"
    /\ UNCHANGED <<run_lesson_type, yandex_service, task_vars, approaches, unified,
                   combined_result>>
    /\ UNCHANGED <<ld_vars, sel_vars, tl_vars, pp_vars, lt_vars, wh_vars>>

\* _combine_all_approaches, lines 229-254
BuildCombinedResult ==
    /\ run_pc = "build"
    /\ combined_result' = CombinedResult(approaches, primary_method, unified,
                                         run_lesson_type)
    /\ run_pc' = "postprocess"
    /\ UNCHANGED <<run_lesson_type, yandex_service, task_vars, approaches, unified,
                   primary_method>>
    /\ UNCHANGED <<ld_vars, sel_vars, tl_vars, pp_vars, lt_vars, wh_vars>>

\* _combine_all_approaches, line 257: _apply_intelligent_post_processing
ApplyIntelligentPostProcessing ==
    /\ run_pc = "postprocess"
    /\ \E lib \in SelLibAnswers :
       \E improved_text \in {ApplyAlgorithmicImprovements(combined_result.text)} :
       \E y \in IF CallsYandex(run_lesson_type, yandex_service, improved_text)
                THEN YandexOutcomes(improved_text) ELSE {NoCorrection} :
          combined_result' =
              PostProcessedOf(combined_result,
                              DetectLanguageMix(combined_result.text, lib),
                              Corrected(improved_text, y))
    /\ run_pc' = "format"
    /\ UNCHANGED <<run_lesson_type, yandex_service, task_vars, approaches, unified,
                   primary_method>>
    /\ UNCHANGED <<ld_vars, sel_vars, tl_vars, pp_vars, lt_vars, wh_vars>>

\* _combine_all_approaches, lines 260-262: the formatted outputs are added and
\* the result is returned
ReturnCombinedResult ==
    /\ run_pc = "format"
    /\ combined_result' =
           [combined_result EXCEPT !.formatted_outputs =
                                       CreateFormattedOutputs(combined_result)]
    /\ run_pc' = "done"
    /\ UNCHANGED <<run_lesson_type, yandex_service, task_vars, approaches, unified,
                   primary_method>>
    /\ UNCHANGED <<ld_vars, sel_vars, tl_vars, pp_vars, lt_vars, wh_vars>>

Next ==
    \/ TranscribeLesson
    \/ RecallCreateTranscript
    \/ RecallSleep
    \/ RecallGetTranscript
    \/ DirectGetAudioUrl
    \/ \E i \in DOMAIN model_pc : ModelSubmit(i)
    \/ \E i \in DOMAIN model_pc : ModelPoll(i)
    \/ DirectCombineModels
    \/ AnalyzeApproaches
    \/ CreateUnifiedTimeline
    \/ SelectBestApproach
    \/ BuildCombinedResult
    \/ ApplyIntelligentPostProcessing
    \/ ReturnCombinedResult

----------------------------------------------------------------------------
(* SpecCleanup: a text cleanup applied to a text, and applied again to its   *)
(* result, as transcribe_lesson_with_comparison post-processes the text that *)
(* _transcribe_single_approach has post-processed                            *)

\* the cleanups: _apply_algorithmic_improvements of the post-processing and
\* _clean_up_natural_text of the text reconstruction
CleanupFunctions == {"_apply_algorithmic_improvements", "_clean_up_natural_text"}

\* the cleanup function f applied to the text t
Cleanup(f, t) ==
    IF f = "_apply_algorithmic_improvements" THEN ApplyAlgorithmicImprovements(t)
    ELSE CleanUpNaturalText(t)

InitCleanup ==
    /\ pp_pc = "input"
    /\ pp_function \in CleanupFunctions
    /\ pp_text \in Texts
    /\ pp_first = <<>>
    /\ pp_second = <<>>
    \* no _determine_lesson_type call
    /\ lt_pc = "idle"
    /\ lt_combined = [primary_language |-> "unknown", languages |-> <<>>]
    /\ lt_lesson_type = "None"
    \* no lesson
    /\ lesson_status = "None"
    /\ lesson_transcript_id = "None"
    /\ service_lesson_type = "chinese"
    /\ webhooks = 0
    /\ bg_pc = <<>>
    /\ bg_result = <<>>
    \* no LanguageDetectionService call
    /\ ld_pc = "idle"
    /\ text = <<>>
    /\ detection_result = EmptyDetectionResult
    /\ ld_calls = {}
    /\ expected_lesson_type = "unknown"
    /\ score = 0
    \* no selector call
    /\ sel_pc = "idle"
    /\ sel_lesson_type = "chinese"
    /\ results = <<>>
    /\ sel_recall_result = None
    /\ sel_direct_result = None
    /\ candidates = <<>>
    /\ scores = <<>>
    /\ best_approach = "None"
    \* no timeline call
    /\ tl_pc = "idle"
    /\ tl_approaches = <<>>
    /\ unified_transcript = EmptyTimeline
    \* no run of transcribe_lesson
    /\ run_pc = "idle"
    /\ run_lesson_type = "chinese"
    /\ yandex_service = FALSE
    /\ recall_pc = "idle"
    /\ recall_data = None
    /\ recall_result = None
    /\ direct_pc = "idle"
    /\ direct_result = None
    /\ model_pc = <<>>
    /\ model_value = <<>>
    /\ polls = <<>>
    /\ selected_model = "None"
    /\ approaches = <<>>
    /\ unified = EmptyTimeline
    /\ primary_method = "None"
    /\ combined_result = None

\* the first pass: _apply_intelligent_post_processing, lines 645-683, called
\* at line 795 (or _clean_up_natural_text called at line 372)
ApplyCleanup ==
    /\ pp_pc = "input"
    /\ pp_first' = Cleanup(pp_function, pp_text)
    /\ pp_pc' = "first"
    /\ UNCHANGED <<pp_function, pp_text, pp_second>>
    /\ UNCHANGED <<ld_vars, sel_vars, tl_vars, run_vars, lt_vars, wh_vars>>

\* the second pass over the text of the first: _apply_intelligent_post_processing
\* called at line 943 on the result whose text the first pass wrote
ApplyCleanupAgain ==
    /\ pp_pc = "first"
    /\ pp_second' = Cleanup(pp_function, pp_first)
    /\ pp_pc' = "second"
    /\ UNCHANGED <<pp_function, pp_text, pp_first>>
    /\ UNCHANGED <<ld_vars, sel_vars, tl_vars, run_vars, lt_vars, wh_vars>>

NextCleanup == ApplyCleanup \/ ApplyCleanupAgain

----------------------------------------------------------------------------
(* One call of _determine_lesson_type *)

\* the combined detection is any primary language with any list of at most
\* MaxLanguages language codes
InitLessonType ==
    /\ lt_pc = "input"
    /\ lt_combined \in
          [primary_language : {"unknown", "ru", "zh", "en", "zh-cn", "mk"},
           languages : UNION { [1..n -> {"ru", "zh", "en", "zh-cn", "mk"}]
                               : n \in 0..MaxLanguages }]
    /\ lt_lesson_type = "None"
    \* no lesson
    /\ lesson_status = "None"
    /\ lesson_transcript_id = "None"
    /\ service_lesson_type = "chinese"
    /\ webhooks = 0
    /\ bg_pc = <<>>
    /\ bg_result = <<>>
    \* no LanguageDetectionService call
    /\ ld_pc = "idle"
    /\ text = <<>>
    /\ detection_result = EmptyDetectionResult
    /\ ld_calls = {}
    /\ expected_lesson_type = "unknown"
    /\ score = 0
    \* no selector call
    /\ sel_pc = "idle"
    /\ sel_lesson_type = "chinese"
    /\ results = <<>>
    /\ sel_recall_result = None
    /\ sel_direct_result = None
    /\ candidates = <<>>
    /\ scores = <<>>
    /\ best_approach = "None"
    \* no timeline call
    /\ tl_pc = "idle"
    /\ tl_approaches = <<>>
    /\ unified_transcript = EmptyTimeline
    \* no run of transcribe_lesson
    /\ run_pc = "idle"
    /\ run_lesson_type = "chinese"
    /\ yandex_service = FALSE
    /\ recall_pc = "idle"
    /\ recall_data = None
    /\ recall_result = None
    /\ direct_pc = "idle"
    /\ direct_result = None
    /\ model_pc = <<>>
    /\ model_value = <<>>
    /\ polls = <<>>
    /\ selected_model = "None"
    /\ approaches = <<>>
    /\ unified = EmptyTimeline
    /\ primary_method = "None"
    /\ combined_result = None
    \* no cleanup
    /\ pp_pc = "idle"
    /\ pp_function = "None"
    /\ pp_text = <<>>
    /\ pp_first = <<>>
    /\ pp_second = <<>>

\* _determine_lesson_type, lines 200-227
CallDetermineLessonType ==
    /\ lt_pc = "input"
    /\ lt_lesson_type' = DetermineLessonType(lt_combined)
    /\ lt_pc' = "returned"
    /\ UNCHANGED lt_combined
    /\ UNCHANGED <<ld_vars, sel_vars, tl_vars, run_vars, pp_vars, wh_vars>>

----------------------------------------------------------------------------
(* The Recall webhook of a lesson and its background transcription tasks *)

\* event_to_status_mapping (lines 138-148)
EventToStatus ==
    ("bot.joining_call" :> "recording")
    @@ ("bot.in_waiting_room" :> "recording")
    @@ ("bot.in_call_not_recording" :> "recording")
    @@ ("bot.recording_permission_allowed" :> "recording")
    @@ ("bot.recording_permission_denied" :> "failed")
    @@ ("bot.in_call_recording" :> "recording")
    @@ ("bot.call_ended" :> "transcribing")
    @@ ("bot.done" :> "transcribing")
    @@ ("bot.fatal" :> "failed")

\* what transcribe_lesson may give the background task: an exception, or the
\* combined result of the two strategies' results (YandexGPT not configured,
\* langdetect failing)
TranscribeLessonOutcomes(lt) ==
    {Raised} \cup
    { LET ap == << Approach("recall_api", r, LibFailure, lt),
                  Approach("direct_assemblyai", d, LibFailure, lt) >>
          cr == CombinedResult(ap, SelectBestApproachByQuality(ap, lt),
                               CreateUnifiedTimelineTranscript(ap), lt)
          pp == PostProcessedOf(cr, DetectLanguageMix(cr.text, LibFailure),
                                Corrected(ApplyAlgorithmicImprovements(cr.text),
                                          NoCorrection))
      IN  [pp EXCEPT !.formatted_outputs = CreateFormattedOutputs(pp)]
      : r \in { TagRecallResult(x) : x \in {None} \cup RecallData },
        d \in {None, NoSuccessfulTranscriptions}
              \cup { PostProcessModelResult(x) : x \in ModelData } }

\* result.get("best_result") is truthy (line 268)
HasBestResult(result) == "best_result" \in DOMAIN result

\* a lesson that is being recorded; no webhook has arrived yet
InitWebhook ==
    /\ lesson_status = "recording"
    /\ lesson_transcript_id = "None"
    /\ service_lesson_type \in {"chinese", "english"}
    /\ webhooks = 0
    /\ bg_pc = <<>>
    /\ bg_result = <<>>
    \* no _determine_lesson_type call
    /\ lt_pc = "idle"
    /\ lt_combined = [primary_language |-> "unknown", languages |-> <<>>]
    /\ lt_lesson_type = "None"
    \* no LanguageDetectionService call
    /\ ld_pc = "idle"
    /\ text = <<>>
    /\ detection_result = EmptyDetectionResult
    /\ ld_calls = {}
    /\ expected_lesson_type = "unknown"
    /\ score = 0
    \* no selector call
    /\ sel_pc = "idle"
    /\ sel_lesson_type = "chinese"
    /\ results = <<>>
    /\ sel_recall_result = None
    /\ sel_direct_result = None
    /\ candidates = <<>>
    /\ scores = <<>>
    /\ best_approach = "None"
    \* no timeline call
    /\ tl_pc = "idle"
    /\ tl_approaches = <<>>
    /\ unified_transcript = EmptyTimeline
    \* no run of transcribe_lesson
    /\ run_pc = "idle"
    /\ run_lesson_type = "chinese"
    /\ yandex_service = FALSE
    /\ recall_pc = "idle"
    /\ recall_data = None
    /\ recall_result = None
    /\ direct_pc = "idle"
    /\ direct_result = None
    /\ model_pc = <<>>
    /\ model_value = <<>>
    /\ polls = <<>>
    /\ selected_model = "None"
    /\ approaches = <<>>
    /\ unified = EmptyTimeline
    /\ primary_method = "None"
    /\ combined_result = None
    \* no cleanup
    /\ pp_pc = "idle"
    /\ pp_function = "None"
    /\ pp_text = <<>>
    /\ pp_first = <<>>
    /\ pp_second = <<>>

\* handle_recall_webhook for an event of the lesson's bot (lines 52-102):
\* _update_lesson_from_webhook, and for bot.done
\* _start_enhanced_transcription_processing, which adds a background task
\* when the recording URL and the recording id are found
HandleRecallWebhook ==
    /\ lesson_status # "None"
    /\ webhooks < MaxWebhooks
    /\ \E event_type \in DOMAIN EventToStatus \cup {"bot.breakout_room_entered"},
          found \in BOOLEAN :
          /\ lesson_status' = IF event_type \in DOMAIN EventToStatus
                              THEN EventToStatus[event_type] ELSE lesson_status
          /\ IF event_type = "bot.done" /\ found
             THEN /\ bg_pc' = Append(bg_pc, "scheduled")
                  /\ bg_result' = Append(bg_result, None)
             ELSE UNCHANGED <<bg_pc, bg_result>>
    /\ webhooks' = webhooks + 1
    /\ UNCHANGED <<lesson_transcript_id, service_lesson_type>>
    /\ UNCHANGED <<ld_vars, sel_vars, tl_vars, run_vars, pp_vars, lt_vars>>

\* _process_enhanced_transcription, lines 246-266: the call of transcribe_lesson
ProcessTranscribeLesson(i) ==
    /\ bg_pc[i] = "scheduled"
    /\ \E result \in TranscribeLessonOutcomes(service_lesson_type) :
          bg_result' = [bg_result EXCEPT ![i] = result]
    /\ bg_pc' = [bg_pc EXCEPT ![i] = "returned"]
    /\ UNCHANGED <<lesson_status, lesson_transcript_id, service_lesson_type, webhooks>>
    /\ UNCHANGED <<ld_vars, sel_vars, tl_vars, run_vars, pp_vars, lt_vars>>

\* _process_enhanced_transcription, lines 268-310: the lesson is failed when
\* transcribe_lesson raised or its result has no best_result; otherwise the
\* transcript is saved and the lesson is completed
ProcessSaveTranscript(i) ==
    /\ bg_pc[i] = "returned"
    /\ IF bg_result[i] = Raised \/ ~HasBestResult(bg_result[i])
       THEN /\ lesson_status' = "failed"
            /\ UNCHANGED lesson_transcript_id
       ELSE /\ lesson_transcript_id' = "saved"
            /\ lesson_status' = "completed"
    /\ bg_pc' = [bg_pc EXCEPT ![i] = "finished"]
    /\ UNCHANGED <<service_lesson_type, webhooks, bg_result>>
    /\ UNCHANGED <<ld_vars, sel_vars, tl_vars, run_vars, pp_vars, lt_vars>>

NextWebhook ==
    \/ HandleRecallWebhook
    \/ \E i \in DOMAIN bg_pc : ProcessTranscribeLesson(i)
    \/ \E i \in DOMAIN bg_pc : ProcessSaveTranscript(i)

----------------------------------------------------------------------------
(* Specifications *)

Spec == Init /\ [][Next]_vars

SpecLang == InitLang /\ [][NextLang]_vars

SpecSelect == InitSelect /\ [][NextSelect]_vars

SpecTimeline == InitTimeline /\ [][NextTimeline]_vars

SpecCleanup == InitCleanup /\ [][NextCleanup]_vars

SpecLessonType == InitLessonType /\ [][CallDetermineLessonType]_vars

SpecWebhook == InitWebhook /\ [][NextWebhook]_vars

----------------------------------------------------------------------------
(* Properties of LanguageDetectionService (checked under SpecLang) *)

\* C9: for every analysis produced by detect_language_mix and every expected
\* lesson type, calculate_quality_score returns
\* min(0.4*confidence + 0.3*[lessonType = expected]
\*     + 0.2*[isMultilingual and expected in {chinese, english}]
\*     + 0.1*[expectedLanguages(expected) intersects detectedLanguages], 1.0),
\* and the value lies in [0, 1] (here in thousandths).
C9_QualityScoreFormula ==
    ld_pc = "scored" =>
        LET expectedLangs ==
                IF expected_lesson_type = "english" THEN {"ru", "en"} ELSE {"ru", "zh"}
            sum == 4 * detection_result.confidence
                   + (IF detection_result.lesson_type = expected_lesson_type
                      THEN 300 ELSE 0)
                   + (IF detection_result.is_multilingual
                         /\ expected_lesson_type \in {"chinese", "english"}
                      THEN 200 ELSE 0)
                   + (IF \E i \in 1..Len(detection_result.detected_languages) :
                            detection_result.detected_languages[i] \in expectedLangs
                      THEN 100 ELSE 0)
        IN  /\ score = (IF sum < 1000 THEN sum ELSE 1000)
            /\ 0 <= score /\ score <= 1000

\* C9 witness: a scored analysis in which all four terms contribute
C9_Witness ==
    /\ ld_pc = "scored"
    /\ detection_result.confidence > 0
    /\ detection_result.lesson_type = expected_lesson_type
    /\ detection_result.is_multilingual
    /\ expected_lesson_type = "english"
    /\ score = 1000

\* C10: for the empty text and every text whose trimmed length is below 10,
\* detect_language_mix returns the canonical empty analysis (confidence 0.0,
\* primary language unknown, no detected languages, isMultilingual false,
\* lessonType unknown) and calls neither classifier.
C10_ShortTextEmptyAnalysis ==
    (ld_pc # "input" /\ (Len(text) = 0 \/ Len(Strip(text)) < 10)) =>
        /\ detection_result.confidence = 0
        /\ detection_result.primary_language = "unknown"
        /\ detection_result.detected_languages = <<>>
        /\ detection_result.is_multilingual = FALSE
        /\ detection_result.lesson_type = "unknown"
        /\ detection_result = EmptyDetectionResult
        /\ "_analyze_scripts" \notin ld_calls
        /\ "_library_detect" \notin ld_calls

\* C10 witness: a text of 10 or more characters whose trimmed length is below
\* 10 has been analysed
C10_Witness ==
    /\ ld_pc = "detected"
    /\ Len(text) >= 10
    /\ Len(Strip(text)) \in 1..9
    /\ ld_calls = {"_empty_detection_result"}

\* the number of characters of a text that are not whitespace
NonSpaceCount(t) == Len(t) - CountIf(t, IsSpace)

\* C11: for every text with fewer than 10 non-whitespace characters, however
\* many whitespace characters lie between them, detect_language_mix returns the
\* canonical empty analysis (confidence 0.0, primary language unknown, no
\* detected languages, isMultilingual false, lessonType unknown).
C11_FewNonSpaceEmptyAnalysis ==
    (ld_pc # "input" /\ NonSpaceCount(text) < 10) =>
        /\ detection_result.confidence = 0
        /\ detection_result.primary_language = "unknown"
        /\ detection_result.detected_languages = <<>>
        /\ detection_result.is_multilingual = FALSE
        /\ detection_result.lesson_type = "unknown"
        /\ "_analyze_scripts" \notin ld_calls

\* the percentages of a script analysis, as numerators over total_chars:
\* scripts[s] = Pct100(sa)[s] / sa.total_chars
Pct100(sa) == [s \in DOMAIN sa.script_counts |-> sa.script_counts[s] * 100]

\* C12: for every non-empty text that detect_language_mix analyses, the script
\* analysis has the four percentages chinese, cyrillic, latin and other, each
\* in [0, 100] and summing to 100, the bucket counts summing to total_chars,
\* the number of non-whitespace characters of the cleaned text; when that
\* number is 0 the dominant script is unknown and nothing is divided.
C12_ScriptPercentages ==
    (ld_pc # "input" /\ "_analyze_scripts" \in ld_calls) =>
        LET sa == detection_result.script_analysis
            total == NonSpaceCount(CleanText(text))
        IN  /\ text # <<>>
            /\ total > 0 =>
                  /\ sa.has_scripts /\ sa.total_chars = total
                  /\ DOMAIN sa.script_counts = {"chinese", "cyrillic", "latin", "other"}
                  /\ \A s \in DOMAIN sa.script_counts :
                        0 <= Pct100(sa)[s] /\ Pct100(sa)[s] <= 100 * sa.total_chars
                  /\ Pct100(sa)["chinese"] + Pct100(sa)["cyrillic"]
                        + Pct100(sa)["latin"] + Pct100(sa)["other"]
                        = 100 * sa.total_chars
                  /\ sa.dominant_script \in DOMAIN sa.script_counts
            /\ total = 0 => (~sa.has_scripts /\ sa.dominant_script = "unknown")

\* C12 witness: an analysed text with punctuation between Cyrillic and
\* Chinese characters: both scripts are counted, the punctuation is not
C12_Witness ==
    /\ ld_pc = "detected" /\ "_analyze_scripts" \in ld_calls
    /\ detection_result.script_analysis.script_counts["chinese"] > 0
    /\ detection_result.script_analysis.script_counts["cyrillic"] > 0
    /\ detection_result.script_analysis.total_chars < NonSpaceCount(text)

\* C13: for every text of trimmed length at least 10 whose chinese-script
\* percentage is above 5 and whose cyrillic-script percentage is above 5,
\* whatever langdetect answers, the analysis has ru and zh among the detected
\* languages, isMultilingual true and lessonType chinese.
C13_MixedScriptsGiveChineseLesson ==
    (/\ ld_pc # "input"
     /\ Len(Strip(text)) >= 10
     /\ CountIf(text, IsChinese) * 100 > 5 * NonSpaceCount(CleanText(text))
     /\ CountIf(text, IsCyrillic) * 100 > 5 * NonSpaceCount(CleanText(text)))
        => /\ \E i \in 1..Len(detection_result.detected_languages) :
                 detection_result.detected_languages[i] = "ru"
           /\ \E i \in 1..Len(detection_result.detected_languages) :
                 detection_result.detected_languages[i] = "zh"
           /\ detection_result.is_multilingual
           /\ detection_result.lesson_type = "chinese"

\* C13 witness: langdetect raised on a text with Chinese and Cyrillic
\* characters, and the analysis names zh and ru from the scripts alone
C13_Witness ==
    /\ ld_pc = "detected"
    /\ CountIf(text, IsChinese) > 0 /\ CountIf(text, IsCyrillic) > 0
    /\ ~detection_result.library_detection.success
    /\ detection_result.detected_languages = <<"zh", "ru">>
    /\ detection_result.is_multilingual
    /\ detection_result.lesson_type = "chinese"

----------------------------------------------------------------------------
(* Properties of the selectors (checked under SpecSelect) *)

\* a text with at least one character in U+0400..U+04FF
ContainsCyrillic(t) == \E k \in 1..Len(t) : t[k] >= 1024 /\ t[k] <= 1279

\* the indices of the candidates that carry the selected name
Winners == {i \in 1..Len(candidates) : candidates[i].name = best_approach}

\* the indices of the candidates whose score is the maximum
Tied == {i \in 1..Len(candidates) : \A j \in 1..Len(candidates) : scores[j] <= scores[i]}

\* the earliest name of the preference order carried by a candidate of S, or
\* else the name of the first candidate of S, or else "recall_api"
Preferred(S) ==
    LET Carried(n) == \E i \in S : candidates[i].name = n
        named == SelectSeq(FallbackOrder, Carried)
    IN  IF named # <<>> THEN Head(named)
        ELSE IF S # {} THEN candidates[CHOOSE i \in S : \A j \in S : i <= j].name
        ELSE "recall_api"

\* C4: for a chinese lesson, _select_best_approach_by_comprehensive_score gives
\* every candidate whose text contains a Cyrillic character a strictly higher
\* score than every candidate whose text contains none, and never selects a
\* Cyrillic-free candidate while a Cyrillic-containing one is present.
C4_CyrillicDominates ==
    (sel_pc = "model_selected" /\ sel_lesson_type = "chinese") =>
        /\ \A i, j \in 1..Len(candidates) :
              (ContainsCyrillic(candidates[i].text) /\ ~ContainsCyrillic(candidates[j].text))
                  => scores[i] > scores[j]
        /\ (\E i \in 1..Len(candidates) : ContainsCyrillic(candidates[i].text))
              => \A w \in Winners : ContainsCyrillic(candidates[w].text)

\* C4 witness: a chinese lesson in which a Cyrillic-free candidate of higher
\* quality, confidence and length stands before the Cyrillic-containing
\* candidate that is selected
C4_Witness ==
    /\ sel_pc = "model_selected" /\ sel_lesson_type = "chinese"
    /\ Len(candidates) >= 2
    /\ ~ContainsCyrillic(candidates[1].text)
    /\ \E w \in Winners :
          /\ w > 1
          /\ ContainsCyrillic(candidates[w].text)
          /\ candidates[1].quality_score > candidates[w].quality_score
          /\ candidates[1].confidence > candidates[w].confidence
          /\ candidates[1].text_length > candidates[w].text_length

\* C5 as stated: the selected candidate has the maximum score, and among the
\* candidates tied at the maximum, available or not, the winner is the earliest
\* in the preference order multilingual, recall_api, direct_assemblyai, or else
\* the first of them.
C5_TieByPreferenceOrder ==
    (sel_pc \in {"model_selected", "approach_selected"} /\ candidates # <<>>) =>
        /\ Winners # {} /\ Winners \subseteq Tied
        /\ best_approach = Preferred(Tied)

\* C5 amended: the selected candidate has the maximum score; among the
\* available candidates tied at the maximum the winner is the earliest in the
\* preference order multilingual, recall_api, direct_assemblyai, or else the
\* first of them; when no candidate is available the name is recall_api.
C5_TieAmongAvailable ==
    (sel_pc \in {"model_selected", "approach_selected"} /\ candidates # <<>>) =>
        /\ Winners # {} /\ Winners \subseteq Tied
        /\ best_approach = Preferred({i \in Tied : candidates[i].available})

\* C5 witness: an unavailable recall_api and an available direct_assemblyai
\* tie at score 0, and direct_assemblyai is selected
C5_Witness ==
    /\ sel_pc = "approach_selected"
    /\ Tied = {1, 2}
    /\ ~candidates[1].available /\ candidates[2].available
    /\ best_approach = "direct_assemblyai"


\* the multilingual adjustment of candidate a, in points: +25 for the strategy
\* named multilingual whose text was detected multilingual, +10 for it when
\* the text was not, -15 for a language-specific strategy whose text was not
\* detected multilingual, 0 otherwise
MultilingualAdjustment(a) ==
    IF a.name = "multilingual"
    THEN IF a.language_analysis.is_multilingual THEN 25 ELSE 10
    ELSE IF a.name \in {"specific_ru", "specific_zh", "specific_en"}
            /\ ~a.language_analysis.is_multilingual
    THEN -15
    ELSE 0

\* 2000 times the score of candidate a before the short-result penalty:
\* qualityScore * 40 + providerConfidence * 30 + min(textLength / 100, 1) * 20
\* plus the adjustment, with qualityScore in thousandths and
\* providerConfidence in hundredths
CompositeBeforePenalty(a) ==
    40 * 2 * a.quality_score
    + 30 * 20 * a.confidence
    + 20 * 20 * (IF Len(a.text) < 100 THEN Len(a.text) ELSE 100)
    + 2000 * MultilingualAdjustment(a)

\* C21: for a lesson type other than chinese the selection score of every
\* candidate is qualityScore * 40 + providerConfidence * 30
\* + min(textLength / 100, 1.0) * 20 plus the multilingual adjustment, and
\* half of that when the text has fewer than 10 characters.
C21_CompositeScore ==
    (sel_pc = "model_selected" /\ sel_lesson_type # "chinese") =>
        \A i \in 1..Len(candidates) :
            IF Len(candidates[i].text) < 10
            THEN 2 * scores[i] = CompositeBeforePenalty(candidates[i])
            ELSE scores[i] = CompositeBeforePenalty(candidates[i])

\* an english lesson with three candidates: a multilingual one detected
\* multilingual, a language-specific one not detected multilingual, and one
\* with fewer than 10 characters
C21_Witness ==
    /\ sel_pc = "model_selected" /\ sel_lesson_type = "english"
    /\ Len(candidates) = 3
    /\ candidates[1].language_analysis.is_multilingual
    /\ MultilingualAdjustment(candidates[1]) = 25
    /\ \E i \in 2..3 :
          /\ Len(candidates[i].text) >= 10
          /\ MultilingualAdjustment(candidates[i]) = -15
    /\ \E i \in 2..3 :
          /\ Len(candidates[i].text) < 10
          /\ scores[i] # 0


\* C30: the short-result penalty never raises a score: for a lesson type other
\* than chinese, the score of a candidate whose text has fewer than 10
\* characters is at most its score before the penalty.
C30_PenaltyNeverRaises ==
    (sel_pc = "model_selected" /\ sel_lesson_type # "chinese") =>
        \A i \in 1..Len(candidates) :
            Len(candidates[i].text) < 10
                => scores[i] <= CompositeBeforePenalty(candidates[i])

----------------------------------------------------------------------------
(* Properties of the unified timeline (checked under SpecTimeline) *)

\* the candidates whose words enter the timeline
Contributing == {k \in 1..Len(tl_approaches) :
                    /\ tl_approaches[k].available
                    /\ tl_approaches[k].result.kind \in {"dict", "list"}}

\* the number of words of a candidate: the length of its word list (of its
\* participants' word lists together), or the number of whitespace-separated
\* words of its text when it has no word list
WordCount(r) ==
    IF r.kind = "list"
    THEN Len(Concat([p \in 1..Len(r.participants) |-> r.participants[p].words]))
    ELSE IF r.has_words THEN Len(r.words)
    ELSE Cardinality({i \in 1..Len(r.text) :
                         /\ r.text[i] \notin {9, 10, 11, 12, 13, 32}
                         /\ (i = 1 \/ r.text[i - 1] \in {9, 10, 11, 12, 13, 32})})

RECURSIVE SumWordCounts(_)
SumWordCounts(S) ==
    IF S = {} THEN 0
    ELSE LET k == CHOOSE x \in S : TRUE
         IN  WordCount(tl_approaches[k].result) + SumWordCounts(S \ {k})

\* a timeline word as the provider reported it
AsReported(w) ==
    [text |-> w.text, start |-> w.start, end |-> w.end, confidence |-> w.confidence,
     speaker |-> w.speaker]

\* the timeline words that came from the named candidate, as reported
FromSource(uw, name) ==
    LET Mine(w) == w.source = name
        mine == SelectSeq(uw, Mine)
    IN  [i \in 1..Len(mine) |-> AsReported(mine[i])]

\* how often x occurs in ws
Occurrences(ws, x) == Cardinality({i \in 1..Len(ws) : ws[i] = x})

\* a word the confidence filter keeps out of the reconstructed text
Excluded(w) ==
    /\ w.confidence < 30
    /\ Len(w.text) > 2
    /\ w.text \notin {<<116, 104, 101>>}

\* C7: the unified word list has as many words as the word lists of the
\* available candidates together, and holds every word of every candidate
\* exactly as often as the candidate does, the words the confidence filter
\* keeps out of the text included.
C7_NoWordLost ==
    tl_pc = "done" =>
        /\ Len(unified_transcript.unified_words) = SumWordCounts(Contributing)
        /\ \A k \in Contributing :
              (tl_approaches[k].result.kind = "dict" /\ tl_approaches[k].result.has_words) =>
                  LET mine == FromSource(unified_transcript.unified_words,
                                         tl_approaches[k].name)
                      ws == tl_approaches[k].result.words
                  IN  /\ Len(mine) = Len(ws)
                      /\ \A i \in 1..Len(ws) :
                            Occurrences(mine, ws[i]) = Occurrences(ws, ws[i])

\* C7 witness: two candidates with two words each; the text is built without
\* the low-confidence "hello", which is still in the word list of four words
C7_Witness ==
    /\ tl_pc = "done"
    /\ \A k \in 1..2 : /\ k \in Contributing
                        /\ tl_approaches[k].result.kind = "dict"
                        /\ Len(tl_approaches[k].result.words) = 2
    /\ Len(unified_transcript.unified_words) = 4
    /\ \E i \in 1..4 :
          /\ Excluded(unified_transcript.unified_words[i])
          /\ unified_transcript.unified_words[i].text = <<104, 101, 108, 108, 111>>
    /\ unified_transcript.text # <<>>
    /\ \A j \in 1..Len(unified_transcript.text) :
          unified_transcript.text[j] \notin {104, 72}

\* C8: the unified word list is in ascending order of start time; of two
\* words with the same start time a recall_api word stands before a
\* direct_assemblyai word, and the words of one candidate with the same start
\* time stand in the order of the candidate's word list.
C8_StableSortByStart ==
    tl_pc = "done" =>
        LET uw == unified_transcript.unified_words
        IN  /\ \A i, j \in 1..Len(uw) : i < j => uw[i].start <= uw[j].start
            /\ \A i, j \in 1..Len(uw) :
                  (i < j /\ uw[i].start = uw[j].start)
                      => ~(uw[i].source = "direct_assemblyai"
                           /\ uw[j].source = "recall_api")
            /\ \A k \in Contributing :
                  (tl_approaches[k].result.kind = "dict"
                   /\ tl_approaches[k].result.has_words) =>
                      \A i \in 1..Len(uw) :
                          LET SameStart(w) == w.start = uw[i].start
                          IN  SelectSeq(FromSource(uw, tl_approaches[k].name), SameStart)
                              = SelectSeq(tl_approaches[k].result.words, SameStart)

\* C8 witness: a candidate whose word list is not in order of start time, and
\* three words with the same start time: two different recall_api words in
\* the order of their list, then a direct_assemblyai word
C8_Witness ==
    /\ tl_pc = "done"
    /\ Len(unified_transcript.unified_words) = 4
    /\ LET uw == unified_transcript.unified_words
           dw == tl_approaches[2].result.words
       IN  /\ uw[1].start = uw[3].start
           /\ uw[1].source = "recall_api" /\ uw[2].source = "recall_api"
           /\ uw[1].text # uw[2].text
           /\ AsReported(uw[1]) = tl_approaches[1].result.words[1]
           /\ uw[3].source = "direct_assemblyai"
           /\ dw[1].start > dw[2].start

\* the speaker segments of the unified transcript
Segments == unified_transcript.speaker_segments

\* C15: the speaker segments partition the sorted word list in order: the
\* concatenation of the segments' word lists is the word list, every word of a
\* segment carries the segment's speaker, no segment is empty, and two
\* consecutive segments have different speakers.
C15_SegmentsPartitionWords ==
    (tl_pc = "done" /\ unified_transcript.unified_words # <<>>) =>
        /\ Concat([k \in 1..Len(Segments) |-> Segments[k].words])
              = unified_transcript.unified_words
        /\ \A k \in 1..Len(Segments) :
              /\ Segments[k].words # <<>>
              /\ \A i \in 1..Len(Segments[k].words) :
                    Segments[k].words[i].speaker = Segments[k].speaker
        /\ \A k \in 1..(Len(Segments) - 1) :
              Segments[k].speaker # Segments[k + 1].speaker

\* C15 witness: words of two sources interleaved by start time, the speaker
\* changing from A to B and back, with a segment of more than one word
C15_Witness ==
    /\ tl_pc = "done"
    /\ Len(unified_transcript.unified_words) = 4
    /\ Len(Segments) = 3
    /\ Segments[1].speaker = Segments[3].speaker
    /\ \E k \in 1..3 :
          /\ Len(Segments[k].words) = 2
          /\ Segments[k].words[1].source # Segments[k].words[2].source


\* the largest end time among the words ws
MaxEnd(ws) == CHOOSE e \in {ws[i].end : i \in 1..Len(ws)} :
                  \A i \in 1..Len(ws) : ws[i].end <= e

\* C22: every speaker segment starts at the start time of its first word and
\* ends at the maximum end time over all its words.
C22_SegmentBounds ==
    (tl_pc = "done" /\ unified_transcript.unified_words # <<>>) =>
        \A k \in 1..Len(Segments) :
            /\ Segments[k].start = Segments[k].words[1].start
            /\ Segments[k].end = MaxEnd(Segments[k].words)


\* a word is eligible for the reconstructed text: confidence at least 0.3, or
\* a text of at most 2 characters, or a text in the allow-list
Eligible(w) ==
    \/ w.confidence >= 30
    \/ Len(Strip(w.text)) <= 2
    \/ Strip(w.text) \in AllowList

\* the words the reconstructed text is built from: the eligible words, or all
\* the words when none is eligible
UsedWords(ws) ==
    IF \E i \in 1..Len(ws) : Eligible(ws[i]) THEN SelectSeq(ws, Eligible) ELSE ws

\* the text reconstructed from the words ws
TextFrom(ws) ==
    CleanUpNaturalText(Strip(JoinWith(Sentences(ws, 1, <<>>, <<>>, ""), <<32>>)))

\* C23 (filter): the reconstructed text is built from the eligible words of
\* the merged word list, or from all its words when none is eligible.
C23_BuiltFromEligibleWords ==
    (tl_pc = "done" /\ unified_transcript.unified_words # <<>>) =>
        unified_transcript.text = TextFrom(UsedWords(unified_transcript.unified_words))

\* C23: the reconstructed text is built from the eligible words, or from all
\* the words when the filter removes every word, and it is never empty when
\* the merged word list contains a word with non-empty text.
C23_TextNeverEmptyWhenWordsExist ==
    (tl_pc = "done" /\ unified_transcript.unified_words # <<>>) =>
        /\ unified_transcript.text
              = TextFrom(UsedWords(unified_transcript.unified_words))
        /\ (\E i \in 1..Len(unified_transcript.unified_words) :
               Strip(unified_transcript.unified_words[i].text) # <<>>)
              => unified_transcript.text # <<>>


\* the sentences of the reconstructed text: a new one is started by a speaker
\* change, by a gap of more than 2.0 seconds, or after terminal punctuation
TextSentences ==
    Sentences(HighConfidenceWords(unified_transcript.unified_words), 1, <<>>, <<>>, "")

\* C24: in the reconstructed text the first letter of every sentence is
\* capitalized when it is alphabetic, whichever rule started the sentence: the
\* text is the text that the sentences give when each of them is capitalized.
C24_EverySentenceCapitalized ==
    (tl_pc = "done" /\ unified_transcript.unified_words # <<>>) =>
        unified_transcript.text =
            CleanUpNaturalText(
                Strip(JoinWith([k \in 1..Len(TextSentences) |->
                                   Capitalize(TextSentences[k])], <<32>>)))


\* the unit in which the provider of result r reports times: the recorded one,
\* or seconds for a list of participants and milliseconds for a flat result
UnitOf(r) ==
    IF "unit" \in DOMAIN r THEN r.unit
    ELSE IF r.kind = "list" THEN "s" ELSE "ms"

\* the time x that the provider of r reported, in thousandths of a second
InThousandths(r, x) == IF UnitOf(r) = "ms" THEN x ELSE x * 1000

\* the words of result r as its provider reported them, of either shape
ReportedWords(r) ==
    IF r.kind = "list"
    THEN Concat([k \in 1..Len(r.participants) |-> r.participants[k].words])
    ELSE IF r.kind = "dict" /\ r.has_words THEN r.words
    ELSE <<>>

\* C25: every word of the unified timeline has its start and end in seconds,
\* whichever shape its result has and whichever unit its provider reports:
\* the timeline words of each candidate are its reported words with the
\* milliseconds divided by 1000 and the seconds unchanged.
C25_TimesInSeconds ==
    tl_pc = "done" =>
        \A k \in 1..Len(tl_approaches) :
            (tl_approaches[k].available /\ ReportedWords(tl_approaches[k].result) # <<>>)
                => { <<w.text, w.start, w.end>> :
                        w \in { unified_transcript.unified_words[i] :
                                  i \in { j \in 1..Len(unified_transcript.unified_words) :
                                            unified_transcript.unified_words[j].source
                                                = tl_approaches[k].name } } }
                   = { <<w.text, InThousandths(tl_approaches[k].result, w.start),
                         InThousandths(tl_approaches[k].result, w.end)>> :
                        w \in SeqToSet(ReportedWords(tl_approaches[k].result)) }

----------------------------------------------------------------------------
(* Properties of a run of transcribe_lesson (checked under Spec) *)

\* the value each strategy returned, in the order of the approaches
StrategyResults == <<recall_result, direct_result>>

\* a strategy that produced a transcription with words
Succeeded(r) == r.kind = "dict" /\ ~r.error /\ r.words # <<>>

\* C1: when both strategies return nothing, the run does not end with an
\* empty text that is marked as an enhanced transcription and carries no
\* failure flag.
C1_AllFailedIsExplicitFailure ==
    ~ ( /\ run_pc = "done"
        /\ recall_result = None /\ direct_result = None
        /\ combined_result.text = <<>>
        /\ combined_result.enhanced_transcription
        /\ ~combined_result.error )

\* C2: the combining steps of the run start only when both strategy tasks
\* have settled, and the direct strategy combines its models only when every
\* transcribe_audio_url task has settled.
C2_CombineAfterAllSettled ==
    /\ run_pc \in {"unify", "select", "build", "postprocess", "format", "done"}
          => (recall_pc = "settled" /\ direct_pc = "settled")
    /\ direct_pc = "settled" => \A i \in DOMAIN model_pc : model_pc[i] = "settled"

\* C2 witness: the combining has started after both strategies returned a
\* result and the three model tasks of the direct strategy settled
C2_Witness ==
    /\ run_pc = "unify"
    /\ recall_result.kind = "dict" /\ direct_result.kind = "dict"
    /\ Len(model_pc) = 3
    /\ selected_model = "specific_zh"

\* C3: when one strategy returned nothing and the other produced a
\* transcription, the run returns a transcript made of the words of the
\* other: the failed strategy is reported as not available, the other is the
\* primary method, every word of the result is a word of the other, and the
\* text is not empty.
C3_OneStrategyFailed ==
    run_pc = "done" =>
        \A failed, other \in {1, 2} :
            (StrategyResults[failed] = None /\ Succeeded(StrategyResults[other]))
                => /\ ~combined_result.approaches_analysis[failed].available
                   /\ combined_result.approaches_analysis[other].available
                   /\ combined_result.primary_method
                         = combined_result.approaches_analysis[other].name
                   /\ Len(combined_result.unified_words)
                         = Len(StrategyResults[other].words)
                   /\ \A i \in 1..Len(combined_result.unified_words) :
                         /\ combined_result.unified_words[i].source
                               = combined_result.approaches_analysis[other].name
                         /\ combined_result.unified_words[i].text
                               = StrategyResults[other].words[i].text
                   /\ combined_result.text # <<>>

\* C3 witness: the recall strategy returned nothing after its transcript was
\* created, the run is done with the words of the direct strategy
C3_Witness ==
    /\ run_pc = "done"
    /\ recall_result = None
    /\ Succeeded(direct_result)
    /\ combined_result.primary_method = "direct_assemblyai"
    /\ Len(combined_result.unified_words) = 2
    /\ combined_result.text # <<>>

\* C6: an approach that is not available scores 0 and is not selected while
\* another is available; when none is available the run ends with an empty
\* text and a failure flag.
C6_UnavailableNeverWins ==
    run_pc = "done" =>
        /\ \A i \in 1..Len(approaches) :
              ~approaches[i].available
                  => /\ QualityScore(approaches[i], run_lesson_type) = 0
                     /\ (\E j \in 1..Len(approaches) : approaches[j].available)
                            => primary_method # approaches[i].name
        /\ (\A i \in 1..Len(approaches) : ~approaches[i].available)
              => (combined_result.text = <<>> /\ combined_result.error)

\* the steps of a run that have finished, read from the state: the candidates
\* are acquired when both strategy tasks have settled, fused when the unified
\* transcript is built, scored when the approaches carry their language
\* analysis and quality score, selected when the primary method is chosen,
\* post-processed when the combined result carries post_processing_applied
Acquired == recall_pc = "settled" /\ direct_pc = "settled"
Fused == run_pc \in {"select", "build", "postprocess", "format", "done"}
Scored == approaches # <<>>
Selected == primary_method # "None"
PostProcessed == combined_result # None /\ combined_result.post_processing_applied

\* C16: the steps of a run are taken in the order acquire, fuse, score,
\* select, post-process, done, none before the one before it has finished: the
\* candidates are scored only when the unified timeline is built, a source is
\* selected only when the candidates are scored, the result is post-processed
\* only when a source is selected, and the run is done only when the result is
\* post-processed.
C16_StepOrder ==
    /\ Fused => Acquired
    /\ Scored => Fused
    /\ Selected => Scored
    /\ PostProcessed => Selected
    /\ run_pc = "done" => PostProcessed

\* C17: when the recall strategy obtains a result in the per-participant list
\* shape, its candidate is available and every word of every participant is
\* in the unified timeline with the participant's speaker label.
C17_ParticipantListNormalized ==
    (run_pc = "done" /\ recall_data.kind = "list") =>
        /\ combined_result.approaches_analysis[1].name = "recall_api"
        /\ combined_result.approaches_analysis[1].available
        /\ \A p \in 1..Len(recall_data.participants) :
           \A k \in 1..Len(recall_data.participants[p].words) :
              \E u \in 1..Len(combined_result.unified_words) :
                 /\ combined_result.unified_words[u].source = "recall_api"
                 /\ combined_result.unified_words[u].text
                       = recall_data.participants[p].words[k].text
                 /\ combined_result.unified_words[u].speaker
                       = recall_data.participants[p].speaker


\* the approach the selector chose
PrimaryApproach ==
    approaches[CHOOSE i \in 1..Len(approaches) : approaches[i].name = primary_method]

\* C18: the text carried into post-processing is the text of the source the
\* selector chose: when the combined result is built from an available primary
\* method, its text is that method's own text.
C18_TextOfPrimaryMethod ==
    (run_pc = "postprocess" /\ PrimaryApproach.available) =>
        combined_result.text = PrimaryApproach.text


\* the direct strategy started its model transcriptions and none of them gave
\* a usable transcription: processed_results was empty
NoModelSucceeded == model_pc # <<>> /\ direct_pc = "settled" /\ selected_model = "None"

\* C19: when every model transcription of the direct strategy has failed or
\* timed out, the run reports the direct_assemblyai candidate as not
\* available.
C19_AllModelsFailedUnavailable ==
    (run_pc = "done" /\ NoModelSucceeded) =>
        /\ combined_result.approaches_analysis[2].name = "direct_assemblyai"
        /\ ~combined_result.approaches_analysis[2].available


\* C26 (bounded loop): no polling loop runs more iterations than fit into
\* max_wait_time.
C26_PollingBounded == \A i \in DOMAIN polls : polls[i] < MaxPolls

\* C26: polling is a bounded loop, and a direct strategy whose model
\* transcriptions have all ended without data, by timeout or error, is
\* treated as unavailable while the run still ends with a result.
C26_TimedOutStrategyUnavailable ==
    /\ \A i \in DOMAIN polls : polls[i] < MaxPolls
    /\ (run_pc = "done" /\ NoModelSucceeded) =>
          /\ combined_result # None
          /\ \A k \in 1..Len(combined_result.approaches_analysis) :
                combined_result.approaches_analysis[k].name = "direct_assemblyai"
                    => ~combined_result.approaches_analysis[k].available


\* the model names of the direct strategy for a lesson type: multilingual and
\* one language-specific model for each expected language of the lesson type
ModelNamesFor(lesson_type) ==
    {"multilingual"}
    \cup { IF l = "ru" THEN "specific_ru" ELSE IF l = "zh" THEN "specific_zh"
           ELSE "specific_en" : l \in SeqToSet(ExpectedLanguages(lesson_type)) }

\* C27: the direct strategy works with the lesson type of the run: the model
\* it selects is one of the models of that lesson type, so that in a run with
\* lesson type english no specific_zh model is selected.
C27_DirectUsesRunLessonType ==
    (direct_pc = "settled" /\ selected_model \notin {"None", "fallback"}) =>
        selected_model \in ModelNamesFor(run_lesson_type)

----------------------------------------------------------------------------
(* Properties of the text cleanup (checked under SpecCleanup) *)

\* C14: the cleanup is idempotent: for every text, cleaning the cleaned text
\* again gives the text that cleaning once gave.
C14_CleanupIdempotent ==
    pp_pc = "second" => pp_second = pp_first

----------------------------------------------------------------------------
(* Properties of _determine_lesson_type (checked under SpecLessonType) *)

\* the set of languages in the list given to _determine_lesson_type
DetectedSet == SeqToSet(lt_combined.languages)

\* C20: for every list of detected languages and every primary language the
\* lesson type is chinese when ru and zh are both detected, else english when
\* ru and en are both detected, else chinese when zh is detected, else english
\* when en is detected without ru, else chinese or english when the primary
\* language is zh or en, and unknown otherwise; when ru is the only language
\* detected (the list holds ru alone and the primary language, if there is
\* one, is ru) the lesson type is unknown.
C20_LessonTypeTable ==
    lt_pc = "returned" =>
        /\ ("ru" \in DetectedSet /\ "zh" \in DetectedSet)
              => lt_lesson_type = "chinese"
        /\ ("ru" \in DetectedSet /\ "en" \in DetectedSet /\ "zh" \notin DetectedSet)
              => lt_lesson_type = "english"
        /\ "zh" \in DetectedSet => lt_lesson_type = "chinese"
        /\ ("en" \in DetectedSet /\ "ru" \notin DetectedSet /\ "zh" \notin DetectedSet)
              => lt_lesson_type = "english"
        /\ ("zh" \notin DetectedSet /\ "en" \notin DetectedSet)
              => /\ lt_combined.primary_language = "zh" => lt_lesson_type = "chinese"
                 /\ lt_combined.primary_language = "en" => lt_lesson_type = "english"
                 /\ lt_combined.primary_language \notin {"zh", "en"}
                       => lt_lesson_type = "unknown"
        /\ (DetectedSet = {"ru"} /\ lt_combined.primary_language \in {"ru", "unknown"})
              => lt_lesson_type = "unknown"

\* _determine_lesson_type has returned unknown for a list that holds ru alone
\* with ru as the primary language
C20_Witness ==
    /\ lt_pc = "returned"
    /\ lt_combined.languages = <<"ru">>
    /\ lt_combined.primary_language = "ru"
    /\ lt_lesson_type = "unknown"

----------------------------------------------------------------------------
(* Properties of the Recall webhooks (checked under SpecWebhook) *)

\* transcribe_lesson gave the task a result with a non-empty transcript
ObtainedTranscript(i) ==
    /\ bg_pc[i] \in {"returned", "finished"}
    /\ bg_result[i] # Raised
    /\ bg_result[i].text # <<>>

\* C28: a background task that obtained a non-empty transcript from
\* transcribe_lesson and has run to its end has saved the transcript to the
\* lesson.
C28_NonEmptyTranscriptSaved ==
    \A i \in DOMAIN bg_pc :
        (bg_pc[i] = "finished" /\ ObtainedTranscript(i))
            => lesson_transcript_id = "saved"

\* C29: once the status of the lesson is completed or failed, no step changes
\* it to recording or transcribing.
C29_TerminalStatusKept ==
    [][(lesson_status \in {"completed", "failed"})
        => (lesson_status' \notin {"recording", "transcribing"})]_vars

====
